---- MODULE Spec2Model ----
(***************************************************************************)
(* Job queue of the 1test / griffin hub: the JobQueue port and its two     *)
(* backends, PostgresJobQueue (a jobs table claimed with SELECT ... FOR    *)
(* UPDATE SKIP LOCKED) and SqsJobQueue (messages leased by a visibility    *)
(* timeout), driven by concurrent callers.  Time is in whole seconds.      *)
(* Then the agent's WorkerService, which polls a queue consumer and runs   *)
(* the claimed jobs, with its own delays in milliseconds.  Then the hub's   *)
(* createJobQueueBackend and the two JobQueueBackend classes it builds.    *)
(* Then the runner's SchedulerService over a plan store, in milliseconds.  *)
(* Then the plan executor's executePlanV1 over a test plan's graph.        *)
(***************************************************************************)
EXTENDS Integers, Sequences, FiniteSets, TLC

VARIABLES
    backend,    \* "relational" | "managed": the configured backend kind
    queueName,  \* relational: caller -> the queue name of its PostgresJobQueue
    now,        \* the clock, in seconds
    jobs,       \* relational: the jobs table, id -> row
    rowLock,    \* relational: id -> caller holding the row's FOR UPDATE lock
    msgs,       \* managed: the queue's messages, message number -> message
    inFlight,   \* managed: caller -> its SqsJobQueue.inFlightJobs map
    issued,     \* managed: number of job ids handed out by enqueue
    call,       \* caller -> the queue call it is inside, with its locals
    last,       \* outcome of the call that finished last
    held,       \* caller -> jobs dequeue returned to it and it has not resolved
    claims,     \* history: id -> number of times dequeue returned the job
    hist,       \* history: id -> facts about the calls made on the job
    overdue,    \* history: a lease was still unresolved when its timeout ended
    strays      \* history: calls that passed a job id the caller did not hold

\* the WorkerService instance
VARIABLES
    workerConfig,       \* the emptyDelay and maxEmptyDelay it was built with
    isRunning,          \* WorkerService.isRunning
    workerPromise,      \* the runWorkerLoop call WorkerService.workerPromise is of
    currentEmptyDelay,  \* WorkerService.currentEmptyDelay
    loops,              \* runWorkerLoop call -> where it stands, with its locals
    stops,              \* stop() call -> where it stands
    runRecord,          \* job -> the run record the runs API keeps for it
    lastStart,          \* outcome of the last start() call
    emptyRun,           \* history: empty polls since the last poll with a job
    sleepsEnded         \* history: empty-poll sleeps ended since the delay was set

queueVars == <<backend, queueName, now, jobs, rowLock, msgs, inFlight, issued,
               call, last, held, claims, hist, overdue, strays>>

agentVars == <<workerConfig, isRunning, workerPromise, currentEmptyDelay, loops,
               stops, runRecord, lastStart, emptyRun, sleepsEnded>>

\* the hub's job queue backend
VARIABLES
    hubConfig,      \* the JobQueueConfig given to createJobQueueBackend
    built,          \* what createJobQueueBackend returned, or that it threw
    phase,          \* history: the last of connect() and disconnect() called
    pool,           \* PostgresJobQueueBackend.pool
    db,             \* PostgresJobQueueBackend.db, by the pool it is over
    pgQueues,       \* PostgresJobQueueBackend.queues: name -> pool of its handle
    poolsMade,      \* the pg pools created so far
    openPools,      \* the pg pools created and not ended
    clients,        \* SqsJobQueueBackend.clients: the regions with a client
    sqsQueues,      \* SqsJobQueueBackend.queues: the names with a handle
    handle,         \* the queue handle the caller was given last
    lastQueue,      \* outcome of the last queue(name) call
    lastOp          \* outcome of the last operation on a queue handle

hubVars == <<hubConfig, built, phase, pool, db, pgQueues, poolsMade, openPools,
             clients, sqsQueues, handle, lastQueue, lastOp>>

\* the runner's SchedulerService and the plan store it reads
VARIABLES
    planStore,      \* plan -> its frequency, its locations and its last scheduled time
    schedRunning,   \* the scheduler was started and not stopped
    clock,          \* the scheduler's clock, in milliseconds
    nextTick,       \* when the tick timer fires next
    outbox,         \* the jobs the last tick enqueued, in order
    lastDue,        \* history: the plans the last tick treated as due
    triggered,      \* history: plan -> when this scheduler triggered it last
    schedLast,      \* outcome of the last start() or stop() call
    tickInFlight,   \* a tick has begun and has not finished
    timers,         \* the tick timers that are set
    stopWaited      \* history: the last stop() call waited for a tick to finish

schedVars == <<planStore, schedRunning, clock, nextTick, outbox, lastDue,
               triggered, schedLast, tickInFlight, timers, stopWaited>>

\* one call of the plan executor's executePlanV1
VARIABLES
    plan,           \* the test plan: its nodes in order and the edge out of each
    execPc,         \* where the call stands
    cursor,         \* the node the graph run is at
    responses,      \* ExecutionState.responses: the nodes with a stored response
    results,        \* ExecutionState.results
    errors,         \* ExecutionState.errors
    executed,       \* history: the nodes whose execute was called, in order
    execResult      \* the ExecutionResult the call returned

execVars == <<plan, execPc, cursor, responses, results, errors, executed,
              execResult>>

\* the processes of the queue's callers
VARIABLES
    crashedIn       \* caller -> "alive", or the call its process died in

crashVars == <<crashedIn>>

svcVars == <<agentVars, hubVars, schedVars, execVars, crashVars>>

notAgent == <<queueVars, hubVars, schedVars, execVars, crashVars>>

notSched == <<queueVars, agentVars, hubVars, execVars, crashVars>>

notExec == <<queueVars, agentVars, hubVars, schedVars, crashVars>>

vars == <<queueVars, svcVars>>

pgVars == <<jobs, rowLock>>
sqsVars == <<msgs, inFlight, issued, overdue>>

----------------------------------------------------------------------------
(* Bounds of the model *)

NumCallers == 2
MaxJobs == 2
MaxTime == 2
MaxMsgs == 3
MaxSqsJobs == 1
MaxOpenJobs == 1
MaxStrays == 2
CountCap == 4
MaxLoops == 2
MaxStops == 2
MaxStreak == 6
MaxAgentJobs == 1
MaxPools == 2
MaxTicks == 6
MaxNodes == 3

(* Program constants *)

DefaultMaxAttempts == 3
DefaultPriority == 0
VisibilityTimeout == 300
MaxDelaySeconds == 900
DefaultEmptyDelay == 1000
DefaultMaxEmptyDelay == 30000
ErrorDelay == 1000
DefaultTickInterval == 30000

NoJob == 0
NoWorker == 0
NoMsg == 0
NoTime == -1
NoLoop == 0
NoPool == 0
NoNode == 0

Callers == 1..NumCallers
Ids == 1..MaxJobs
Locations == {"us-east", "eu-west"}
AnyLocation == "any"
Filters == Locations \cup {AnyLocation}
\* a runAt further ahead than the longest DelaySeconds
FarDelay == MaxDelaySeconds + 100
\* the EnqueueOptions the callers pass: location, runAt - now, priority,
\* maxAttempts (the first leaves the optional ones to their defaults)
EnqueueOptions ==
    {[location |-> "us-east", delay |-> 0, priority |-> DefaultPriority,
      maxAttempts |-> DefaultMaxAttempts],
     [location |-> "us-east", delay |-> 0, priority |-> 5, maxAttempts |-> 2],
     [location |-> "eu-west", delay |-> 2, priority |-> DefaultPriority,
      maxAttempts |-> 1],
     [location |-> "eu-west", delay |-> FarDelay, priority |-> DefaultPriority,
      maxAttempts |-> 1]}
\* the queue names the callers' PostgresJobQueue handles are built with: all
\* on the default queue, or the first caller on it and the others on a second
DefaultQueue == "default"
QueueNamings ==
    {[w \in Callers |-> DefaultQueue],
     [w \in Callers |-> IF w = 1 THEN DefaultQueue ELSE "reports"]}
Errors == {"boom"}
NoError == "null"

PENDING == "pending"
RUNNING == "running"
COMPLETED == "completed"
FAILED == "failed"
RETRYING == "retrying"
ABSENT == "absent"

Pow2(n) == 2 ^ n

\* history counters stop counting at CountCap
Count(n) == IF n < CountCap THEN n + 1 ELSE n

----------------------------------------------------------------------------
(* Relational backend: rows of the jobs table *)

NoRow ==
    [queue |-> "none", status |-> ABSENT, attempts |-> 0, maxAttempts |-> 0,
     priority |-> 0, scheduledFor |-> 0, location |-> AnyLocation,
     startedAt |-> NoTime, completedAt |-> NoTime, error |-> NoError]

Idle == [op |-> "idle", job |-> NoJob, filter |-> AnyLocation,
         shouldRetry |-> FALSE, nextRunAt |-> 0, error |-> NoError,
         at |-> 0]

\* failed: fail was called; hard: fail was called with retry = false;
\* retries: fail calls that retried; terminalFail: a fail call marked it failed;
\* acked: acknowledge returned for it; reacked: acknowledge was called for it
\* after an acknowledge had returned for it
NoHist == [failed |-> FALSE, hard |-> FALSE, retries |-> 0,
           terminalFail |-> FALSE, acked |-> FALSE, reacked |-> FALSE]

\* getJob without its "no rows" case
Exists_Unchecked(j) == TRUE

Exists(j) == jobs[j].status # ABSENT

\* the WHERE clause without its scheduled_for test
Eligible_NotYetDue(q, f) ==
    {j \in Ids : /\ jobs[j].queue = q
                 /\ jobs[j].status = PENDING
                 /\ (f = AnyLocation \/ jobs[j].location = f)}

\* the WHERE clause without its location test
Eligible_AnyLocation(q, f) ==
    {j \in Ids : /\ jobs[j].queue = q
                 /\ jobs[j].status = PENDING
                 /\ jobs[j].scheduledFor <= now}

\* WHERE queue_name = $2 AND status = 'pending' AND scheduled_for <= NOW()
\* [AND location = $4]
Eligible(q, f) ==
    {j \in Ids : /\ jobs[j].queue = q
                 /\ jobs[j].status = PENDING
                 /\ jobs[j].scheduledFor <= now
                 /\ (f = AnyLocation \/ jobs[j].location = f)}

\* the ordering with priority ascending
RanksBefore_Ascending(a, b) ==
    \/ jobs[a].priority < jobs[b].priority
    \/ /\ jobs[a].priority = jobs[b].priority
       /\ jobs[a].scheduledFor < jobs[b].scheduledFor

\* ORDER BY priority DESC, scheduled_for ASC
RanksBefore(a, b) ==
    \/ jobs[a].priority > jobs[b].priority
    \/ /\ jobs[a].priority = jobs[b].priority
       /\ jobs[a].scheduledFor < jobs[b].scheduledFor

\* the sub-select without SKIP LOCKED, read before the other claim commits
Selectable_IgnoringLocks(q, f) ==
    {j \in Eligible(q, f) : \A k \in Eligible(q, f) : ~RanksBefore(k, j)}

\* the sub-select with FOR UPDATE NOWAIT semantics: the best row or nothing
Selectable_HeadOfLine(q, f) ==
    {j \in Selectable_IgnoringLocks(q, f) : rowLock[j] = NoWorker}

\* FOR UPDATE SKIP LOCKED LIMIT 1: the best rows among those not locked
Selectable(q, f) ==
    LET open == {j \in Eligible(q, f) : rowLock[j] = NoWorker}
    IN {j \in open : \A k \in open : ~RanksBefore(k, j)}

\* acknowledge or fail of a job the caller does not hold
Stray(w, j) == IF j \in held[w] THEN 0 ELSE 1

Finish(w, op, j, out) ==
    /\ call' = [call EXCEPT ![w] = Idle]
    /\ last' = out

\* enqueue: one INSERT
PgEnqueue(w, o) ==
    /\ backend = "relational"
    /\ call[w].op = "idle"
    /\ \E j \in Ids :
        /\ ~Exists(j)
        /\ \A k \in Ids : k < j => Exists(k)
        /\ jobs' = [jobs EXCEPT ![j] =
              [queue |-> queueName[w], status |-> PENDING, attempts |-> 0,
               maxAttempts |-> o.maxAttempts, priority |-> o.priority,
               scheduledFor |-> now + o.delay,
               location |-> o.location, startedAt |-> NoTime,
               completedAt |-> NoTime, error |-> NoError]]
        /\ Finish(w, "enqueue", j, "ok")
    /\ UNCHANGED <<svcVars, backend, queueName, now, rowLock, held, claims, hist, sqsVars,
                   strays>>

\* dequeue, the locking sub-select: no row -> null, else the row is locked
PgDequeueSelect(w, f) ==
    /\ backend = "relational"
    /\ call[w].op = "idle"
    /\ IF Selectable(queueName[w], f) = {}
       THEN /\ Finish(w, "dequeue", NoJob, "null")
            /\ UNCHANGED rowLock
       ELSE \E j \in Selectable(queueName[w], f) :
            /\ rowLock' = [rowLock EXCEPT ![j] = w]
            /\ call' = [call EXCEPT ![w] =
                  [Idle EXCEPT !.op = "dequeue", !.job = j, !.filter = f]]
            /\ UNCHANGED last
    /\ UNCHANGED <<svcVars, backend, queueName, now, jobs, held, claims, hist, sqsVars,
                   strays>>

\* dequeue, the UPDATE of the locked row and the statement's commit
PgDequeueUpdateRow(row) ==
    [row EXCEPT !.status = RUNNING, !.startedAt = now,
                !.attempts = row.attempts + 1]

PgDequeueUpdate(w) ==
    /\ backend = "relational"
    /\ call[w].op = "dequeue"
    /\ LET j == call[w].job IN
        /\ jobs' = [jobs EXCEPT ![j] = PgDequeueUpdateRow(jobs[j])]
        /\ rowLock' = [rowLock EXCEPT ![j] = NoWorker]
        /\ held' = [held EXCEPT ![w] = held[w] \cup {j}]
        /\ claims' = [claims EXCEPT ![j] = Count(claims[j])]
        /\ Finish(w, "dequeue", j, "job")
    /\ UNCHANGED <<svcVars, backend, queueName, now, hist, sqsVars,
                   strays>>

\* acknowledge: UPDATE jobs SET status = completed ... WHERE id = $2
PgAcknowledgeRow(row) ==
    [row EXCEPT !.status = COMPLETED, !.completedAt = now]

PgAcknowledge(w, j) ==
    /\ backend = "relational"
    /\ call[w].op = "idle"
    /\ rowLock[j] = NoWorker
    /\ jobs' = [jobs EXCEPT ![j] =
                  IF Exists(j) THEN PgAcknowledgeRow(jobs[j]) ELSE jobs[j]]
    /\ held' = [held EXCEPT ![w] = held[w] \ {j}]
    /\ hist' = [hist EXCEPT ![j].acked = TRUE,
                            ![j].reacked = @ \/ hist[j].acked]
    /\ Finish(w, "acknowledge", j, "ok")
    /\ strays' = strays + Stray(w, j)
    /\ UNCHANGED <<svcVars, backend, queueName, now, rowLock, claims, sqsVars>>

\* shouldRetry with attempts <= maxAttempts
ShouldRetry_Inclusive(retry, row) == retry /\ row.attempts <= row.maxAttempts

\* fail: getJob, then shouldRetry and nextRunAt from the row read
ShouldRetry(retry, row) == retry /\ row.attempts < row.maxAttempts

PgBackoffSeconds(attempts) == Pow2(attempts)

PgFailRead(w, j, err, retry) ==
    /\ backend = "relational"
    /\ call[w].op = "idle"
    /\ IF ~Exists(j)
       THEN /\ Finish(w, "fail", j, "threw")
            /\ UNCHANGED <<held, hist>>
       ELSE /\ call' = [call EXCEPT ![w] =
                  [op |-> "fail", job |-> j, filter |-> AnyLocation,
                   shouldRetry |-> ShouldRetry(retry, jobs[j]),
                   nextRunAt |-> now + PgBackoffSeconds(jobs[j].attempts),
                   error |-> err, at |-> now]]
            /\ hist' = [hist EXCEPT ![j].failed = TRUE,
                                    ![j].hard = @ \/ ~retry]
            /\ UNCHANGED <<last, held>>
    /\ strays' = strays + Stray(w, j)
    /\ UNCHANGED <<svcVars, backend, queueName, now, jobs, rowLock, claims, sqsVars>>

\* the first UPDATE reopening the job before it is rescheduled
PgFailWriteRow_ReopenFirst(row, c) ==
    IF c.shouldRetry
    THEN [row EXCEPT !.status = PENDING, !.error = c.error]
    ELSE [row EXCEPT !.status = FAILED, !.error = c.error,
                     !.completedAt = now]

\* fail, the first UPDATE: retrying + error + scheduled_for, or failed
PgFailWriteRow(row, c) ==
    IF c.shouldRetry
    THEN [row EXCEPT !.status = RETRYING, !.error = c.error,
                     !.scheduledFor = c.nextRunAt]
    ELSE [row EXCEPT !.status = FAILED, !.error = c.error,
                     !.completedAt = now]

PgFailWrite(w) ==
    /\ backend = "relational"
    /\ call[w].op = "fail"
    /\ LET j == call[w].job IN
        /\ rowLock[j] = NoWorker
        /\ jobs' = [jobs EXCEPT ![j] = PgFailWriteRow(jobs[j], call[w])]
        /\ IF call[w].shouldRetry
           THEN /\ call' = [call EXCEPT ![w].op = "fail_reset"]
                /\ UNCHANGED <<last, held, hist>>
           ELSE /\ held' = [held EXCEPT ![w] = held[w] \ {j}]
                /\ hist' = [hist EXCEPT ![j].terminalFail = TRUE]
                /\ Finish(w, "fail", j, "ok")
    /\ UNCHANGED <<svcVars, backend, queueName, now, rowLock, claims, sqsVars,
                   strays>>

\* fail, the second UPDATE of a retry: status = pending
PgFailResetRow(row) == [row EXCEPT !.status = PENDING]

PgFailReset(w) ==
    /\ backend = "relational"
    /\ call[w].op = "fail_reset"
    /\ LET j == call[w].job IN
        /\ rowLock[j] = NoWorker
        /\ jobs' = [jobs EXCEPT ![j] = PgFailResetRow(jobs[j])]
        /\ held' = [held EXCEPT ![w] = held[w] \ {j}]
        /\ hist' = [hist EXCEPT ![j].retries = Count(@)]
        /\ Finish(w, "fail", j, "ok")
    /\ UNCHANGED <<svcVars, backend, queueName, now, rowLock, claims, sqsVars,
                   strays>>

----------------------------------------------------------------------------
(* Managed backend: an SQS queue and the callers' SqsJobQueue instances *)

MsgIds == 1..MaxMsgs
MaxClock == MaxDelaySeconds + MaxTime

AbsentMsg ==
    [state |-> "absent", id |-> NoJob, location |-> AnyLocation,
     attempts |-> 0, maxAttempts |-> 0, priority |-> 0, scheduledFor |-> 0,
     createdAt |-> 0, error |-> NoError, visibleAt |-> 0, receives |-> 0]

DeletedMsg == [AbsentMsg EXCEPT !.state = "deleted"]

NoLease ==
    [msg |-> NoMsg, receipt |-> 0, attempts |-> 0, maxAttempts |-> 0,
     location |-> AnyLocation, priority |-> 0, scheduledFor |-> 0,
     createdAt |-> 0, startedAt |-> NoTime]

Queued(m) == msgs[m].state = "queued"

\* a receive that does not honour delays and visibility timeouts
Visible_NoTimeout == {m \in MsgIds : Queued(m)}

\* ReceiveMessage: the messages a receive may return
Visible == {m \in MsgIds : Queued(m) /\ msgs[m].visibleAt <= now}

FreeMsg(m) ==
    /\ msgs[m].state = "absent"
    /\ \A k \in MsgIds : k < m => msgs[k].state # "absent"

\* SendMessage with DelaySeconds
SqsSend(m, body, delaySeconds) ==
    [msgs EXCEPT ![m] =
        [state |-> "queued", id |-> body.id, location |-> body.location,
         attempts |-> body.attempts, maxAttempts |-> body.maxAttempts,
         priority |-> body.priority, scheduledFor |-> body.scheduledFor,
         createdAt |-> body.createdAt, error |-> body.error,
         visibleAt |-> now + delaySeconds,
         receives |-> 0]]

\* DeleteMessage by receipt handle: the handle of the latest receive deletes
\* the message; an older handle may or may not
SqsDeleted(q, m, receipt, stale) ==
    IF q[m].state = "queued" /\ (q[m].receives = receipt \/ stale)
    THEN [q EXCEPT ![m] = DeletedMsg]
    ELSE q

Min(a, b) == IF a < b THEN a ELSE b
Max(a, b) == IF a > b THEN a ELSE b

\* enqueue: delaySeconds = max(0, min(900, floor(runAt - now)))
SqsEnqueueDelay(delay) == Max(0, Min(MaxDelaySeconds, delay))

SqsEnqueue(c, o) ==
    /\ backend = "managed"
    /\ call[c].op = "idle"
    /\ issued < MaxSqsJobs
    /\ \E m \in MsgIds :
        /\ FreeMsg(m)
        /\ msgs' = SqsSend(m,
              [id |-> issued + 1, location |-> o.location, attempts |-> 0,
               maxAttempts |-> o.maxAttempts, priority |-> o.priority,
               scheduledFor |-> now + o.delay, createdAt |-> now,
               error |-> NoError],
              SqsEnqueueDelay(o.delay))
    /\ issued' = issued + 1
    /\ Finish(c, "enqueue", issued + 1, "ok")
    /\ UNCHANGED <<svcVars, backend, queueName, now, pgVars, inFlight, held, claims, hist, overdue,
                   strays>>

\* dequeue: receive one message for VisibilityTimeout seconds; a message of
\* another location is left to its timeout and null is returned
SqsLease(m, q) ==
    [msg |-> m, receipt |-> q[m].receives, attempts |-> q[m].attempts + 1,
     maxAttempts |-> q[m].maxAttempts, location |-> q[m].location,
     priority |-> q[m].priority, scheduledFor |-> q[m].scheduledFor,
     createdAt |-> q[m].createdAt, startedAt |-> now]

\* dequeue that deletes a message of another location
SqsDequeue_DeleteMismatch(c, f) ==
    /\ backend = "managed"
    /\ call[c].op = "idle"
    /\ IF Visible = {}
       THEN /\ Finish(c, "dequeue", NoJob, "null")
            /\ UNCHANGED <<msgs, inFlight, held, claims>>
       ELSE \E m \in Visible :
            /\ msgs' = IF f # AnyLocation /\ msgs[m].location # f
                       THEN [msgs EXCEPT ![m] = DeletedMsg]
                       ELSE [msgs EXCEPT
                               ![m].visibleAt = now + VisibilityTimeout,
                               ![m].receives = @ + 1]
            /\ IF f # AnyLocation /\ msgs[m].location # f
               THEN /\ Finish(c, "dequeue", NoJob, "null")
                    /\ UNCHANGED <<inFlight, held, claims>>
               ELSE LET j == msgs[m].id IN
                    /\ inFlight' = [inFlight EXCEPT ![c][j] = SqsLease(m, msgs')]
                    /\ held' = [held EXCEPT ![c] = held[c] \cup {j}]
                    /\ claims' = [claims EXCEPT ![j] = Count(claims[j])]
                    /\ Finish(c, "dequeue", j, "job")
    /\ UNCHANGED <<svcVars, backend, queueName, now, pgVars, issued, hist, overdue,
                   strays>>

SqsDequeue(c, f) ==
    /\ backend = "managed"
    /\ call[c].op = "idle"
    /\ IF Visible = {}
       THEN /\ Finish(c, "dequeue", NoJob, "null")
            /\ UNCHANGED <<msgs, inFlight, held, claims>>
       ELSE \E m \in Visible :
            /\ msgs' = [msgs EXCEPT ![m].visibleAt = now + VisibilityTimeout,
                                    ![m].receives = @ + 1]
            /\ IF f # AnyLocation /\ msgs[m].location # f
               THEN /\ Finish(c, "dequeue", NoJob, "null")
                    /\ UNCHANGED <<inFlight, held, claims>>
               ELSE LET j == msgs[m].id IN
                    /\ inFlight' = [inFlight EXCEPT ![c][j] = SqsLease(m, msgs')]
                    /\ held' = [held EXCEPT ![c] = held[c] \cup {j}]
                    /\ claims' = [claims EXCEPT ![j] = Count(claims[j])]
                    /\ Finish(c, "dequeue", j, "job")
    /\ UNCHANGED <<svcVars, backend, queueName, now, pgVars, issued, hist, overdue,
                   strays>>

\* acknowledge that returns silently for a job not in inFlightJobs
SqsAcknowledge_Silent(c, j, stale) ==
    /\ backend = "managed"
    /\ call[c].op = "idle"
    /\ msgs' = IF inFlight[c][j].msg = NoMsg
               THEN msgs
               ELSE SqsDeleted(msgs, inFlight[c][j].msg,
                               inFlight[c][j].receipt, stale)
    /\ inFlight' = [inFlight EXCEPT ![c][j] = NoLease]
    /\ held' = [held EXCEPT ![c] = held[c] \ {j}]
    /\ hist' = [hist EXCEPT ![j].acked = TRUE,
                            ![j].reacked = @ \/ hist[j].acked]
    /\ Finish(c, "acknowledge", j, "ok")
    /\ strays' = strays + Stray(c, j)
    /\ UNCHANGED <<svcVars, backend, queueName, now, pgVars, issued, claims, overdue>>

\* acknowledge: throws for a job not in inFlightJobs, else deletes the message
SqsAcknowledge(c, j, stale) ==
    /\ backend = "managed"
    /\ call[c].op = "idle"
    /\ IF inFlight[c][j].msg = NoMsg
       THEN /\ Finish(c, "acknowledge", j, "threw")
            /\ hist' = [hist EXCEPT ![j].reacked = @ \/ hist[j].acked]
            /\ UNCHANGED <<msgs, inFlight, held>>
       ELSE /\ msgs' = SqsDeleted(msgs, inFlight[c][j].msg,
                                  inFlight[c][j].receipt, stale)
            /\ inFlight' = [inFlight EXCEPT ![c][j] = NoLease]
            /\ held' = [held EXCEPT ![c] = held[c] \ {j}]
            /\ hist' = [hist EXCEPT ![j].acked = TRUE,
                                    ![j].reacked = @ \/ hist[j].acked]
            /\ Finish(c, "acknowledge", j, "ok")
    /\ strays' = strays + Stray(c, j)
    /\ UNCHANGED <<svcVars, backend, queueName, now, pgVars, issued, claims, overdue>>

\* fail: throws for a job not in inFlightJobs, else always deletes the message
SqsFailDelete(c, j, err, retry, stale) ==
    /\ backend = "managed"
    /\ call[c].op = "idle"
    /\ IF inFlight[c][j].msg = NoMsg
       THEN /\ Finish(c, "fail", j, "threw")
            /\ UNCHANGED <<msgs, inFlight, held, hist>>
       ELSE /\ msgs' = SqsDeleted(msgs, inFlight[c][j].msg,
                                  inFlight[c][j].receipt, stale)
            /\ IF ShouldRetry(retry, inFlight[c][j])
               THEN /\ call' = [call EXCEPT ![c] =
                          [Idle EXCEPT !.op = "fail_send", !.job = j,
                                       !.shouldRetry = TRUE, !.error = err,
                                       !.at = now]]
                    /\ hist' = [hist EXCEPT ![j].failed = TRUE,
                                            ![j].hard = @ \/ ~retry]
                    /\ UNCHANGED <<inFlight, held, last>>
               ELSE /\ inFlight' = [inFlight EXCEPT ![c][j] = NoLease]
                    /\ held' = [held EXCEPT ![c] = held[c] \ {j}]
                    /\ hist' = [hist EXCEPT ![j].failed = TRUE,
                                            ![j].hard = @ \/ ~retry,
                                            ![j].terminalFail = TRUE]
                    /\ Finish(c, "fail", j, "ok")
    /\ strays' = strays + Stray(c, j)
    /\ UNCHANGED <<svcVars, backend, queueName, now, pgVars, issued, claims, overdue>>

\* the backoff computed from the attempts before the failed lease
SqsBackoffSeconds_PreIncrement(attempts) ==
    Min(MaxDelaySeconds, Pow2(attempts - 1))

\* fail, the retry: re-send with the lease's attempts after a backoff delay
SqsBackoffSeconds(attempts) == Min(MaxDelaySeconds, Pow2(attempts))

SqsFailSend(c) ==
    /\ backend = "managed"
    /\ call[c].op = "fail_send"
    /\ LET j == call[c].job
           lease == inFlight[c][j]
           backoff == SqsBackoffSeconds(lease.attempts)
       IN /\ \E m \in MsgIds :
               /\ FreeMsg(m)
               /\ msgs' = SqsSend(m,
                     [id |-> j, location |-> lease.location,
                      attempts |-> lease.attempts,
                      maxAttempts |-> lease.maxAttempts,
                      priority |-> lease.priority,
                      scheduledFor |-> now + backoff,
                      createdAt |-> lease.createdAt,
                      error |-> call[c].error],
                     backoff)
          /\ inFlight' = [inFlight EXCEPT ![c][j] = NoLease]
          /\ held' = [held EXCEPT ![c] = held[c] \ {j}]
          /\ hist' = [hist EXCEPT ![j].retries = Count(@)]
          /\ Finish(c, "fail", j, "ok")
    /\ UNCHANGED <<svcVars, backend, queueName, now, pgVars, issued, claims, overdue,
                   strays>>

----------------------------------------------------------------------------
\* the clock
Overdue(t) ==
    \E c \in Callers, j \in Ids :
        /\ inFlight[c][j].msg # NoMsg
        /\ t >= inFlight[c][j].startedAt + VisibilityTimeout

Tick ==
    /\ now < MaxTime
    /\ now' = now + 1
    /\ overdue' = (overdue \/ Overdue(now + 1))
    /\ UNCHANGED <<svcVars, backend, queueName, jobs, rowLock, msgs, inFlight, issued, call, last,
                   held, claims, hist,
                   strays>>

\* the managed queue's timers: the clock reaches the next instant at which a
\* delayed or leased message becomes visible
TickToVisible ==
    /\ backend = "managed"
    /\ LET due == {msgs[m].visibleAt : m \in {k \in MsgIds : Queued(k)}}
           later == {t \in due : t > now}
       IN /\ later # {}
          /\ \E t \in later :
               /\ \A u \in later : t <= u
               /\ t <= MaxClock
               /\ now' = t
               /\ overdue' = (overdue \/ Overdue(t))
    /\ UNCHANGED <<svcVars, backend, queueName, jobs, rowLock, msgs, inFlight, issued, call, last,
                   held, claims, hist,
                   strays>>

----------------------------------------------------------------------------
(* The agent's WorkerService: its state *)

LoopIds == 1..MaxLoops
StopIds == 1..MaxStops
\* the jobs the agent's queue consumer hands out, time and again
AgentJobs == 1..MaxAgentJobs

\* the WorkerConfig values the service is built with: the defaults, and an
\* emptyDelay above the maxEmptyDelay
WorkerConfigs ==
    {[emptyDelay |-> DefaultEmptyDelay, maxEmptyDelay |-> DefaultMaxEmptyDelay],
     [emptyDelay |-> 5000, maxEmptyDelay |-> 2000]}

\* a runWorkerLoop call that was not made; trail lists the calls processJob
\* has issued for the job in hand
NoLoopCall == [pc |-> "unborn", job |-> NoJob, success |-> FALSE,
               error |-> NoError, sleep |-> 0, trail |-> <<>>]

NoStopCall == [state |-> "idle", on |-> NoLoop, saw |-> {}]

NoRunRecord == [status |-> "none", error |-> NoError]

\* after the constructor
WorkerConstructed ==
    /\ isRunning = FALSE
    /\ workerPromise = NoLoop
    /\ currentEmptyDelay = workerConfig.emptyDelay
    /\ loops = [l \in LoopIds |-> NoLoopCall]
    /\ stops = [s \in StopIds |-> NoStopCall]
    /\ runRecord = [j \in AgentJobs |-> NoRunRecord]
    /\ lastStart = "none"
    /\ emptyRun = 0
    /\ sleepsEnded = 0

\* no agent beside the queue's callers
NoAgent ==
    /\ workerConfig = [emptyDelay |-> DefaultEmptyDelay,
                       maxEmptyDelay |-> DefaultMaxEmptyDelay]
    /\ WorkerConstructed

----------------------------------------------------------------------------
(* The scheduler: its state *)

PlanIds == {"plan-a", "plan-b"}

\* the frequencies plans have: every minute, every two minutes, every hour
Frequencies ==
    {[every |-> 1, unit |-> "minute"], [every |-> 2, unit |-> "minute"],
     [every |-> 1, unit |-> "hour"]}

\* a plan of the store: never scheduled, or scheduled last at time 0
PlanRows ==
    [frequency : Frequencies,
     locations : {{}, {"us-east"}, Locations},
     lastScheduled : {NoTime, 0}]

PlanStores == [PlanIds -> PlanRows]

\* a scheduler that was constructed and not started
SchedulerConstructed ==
    /\ schedRunning = FALSE
    /\ clock = 0
    /\ nextTick = NoTime
    /\ outbox = <<>>
    /\ lastDue = {}
    /\ triggered = [p \in PlanIds |-> NoTime]
    /\ schedLast = "none"
    /\ tickInFlight = FALSE
    /\ timers = 0
    /\ stopWaited = FALSE

\* no scheduler beside the queue's callers
NoScheduler ==
    /\ planStore = [p \in PlanIds |->
                       [frequency |-> [every |-> 1, unit |-> "minute"],
                        locations |-> {}, lastScheduled |-> NoTime]]
    /\ SchedulerConstructed

----------------------------------------------------------------------------
(* The plan executor: its state *)

\* what a node of a plan is and does: an endpoint whose request is answered,
\* whose request fails with a message, whose request fails with an error of
\* empty message, an endpoint of a response format other than JSON, a wait,
\* an assertion
NodeKinds ==
    {"endpoint", "endpoint fails", "endpoint fails silently", "endpoint xml",
     "wait", "assertion"}

\* the plans: nodes 1..n in the order of plan.nodes, and for each the node
\* its edge leads to, if it has one
TestPlans ==
    UNION {[kind : [1..n -> NodeKinds], next : [1..n -> 0..n]] : n \in 0..MaxNodes}

NoResult == [returned |-> FALSE, success |-> FALSE, results |-> <<>>,
             errors |-> <<>>]

\* before executePlanV1 is called
NotExecuting ==
    /\ execPc = "idle"
    /\ cursor = NoNode
    /\ responses = {}
    /\ results = <<>>
    /\ errors = <<>>
    /\ executed = <<>>
    /\ execResult = NoResult

\* no plan is executed beside the queue's callers
NoExecutor ==
    /\ plan = [kind |-> <<>>, next |-> <<>>]
    /\ NotExecuting

----------------------------------------------------------------------------
(* The hub's job queue backend: its state *)

QueueNames == {DefaultQueue, "reports"}

\* queueInfo entries: the region given, the region and the queue name in the
\* url ("none": the url is not of the form sqs.<region>.amazonaws.com)
DefaultQueueInfo ==
    [region |-> "us-east-1", urlRegion |-> "us-east-1", name |-> DefaultQueue]
ReportsQueueInfo ==
    [region |-> "eu-west-1", urlRegion |-> "none", name |-> "reports"]

\* the JobQueueConfig values: postgres with and without a connection string,
\* sqs with queueInfo missing, empty, of one and of two queues, and a backend
\* that is neither
HubConfigs ==
    {[backend |-> "postgres", connectionString |-> "postgres://hub",
      hasQueueInfo |-> FALSE, queueInfo |-> <<>>],
     [backend |-> "postgres", connectionString |-> "undefined",
      hasQueueInfo |-> FALSE, queueInfo |-> <<>>],
     [backend |-> "sqs", connectionString |-> "undefined",
      hasQueueInfo |-> FALSE, queueInfo |-> <<>>],
     [backend |-> "sqs", connectionString |-> "undefined",
      hasQueueInfo |-> TRUE, queueInfo |-> <<>>],
     [backend |-> "sqs", connectionString |-> "undefined",
      hasQueueInfo |-> TRUE, queueInfo |-> <<DefaultQueueInfo>>],
     [backend |-> "sqs", connectionString |-> "undefined",
      hasQueueInfo |-> TRUE,
      queueInfo |-> <<DefaultQueueInfo, ReportsQueueInfo>>],
     [backend |-> "redis", connectionString |-> "undefined",
      hasQueueInfo |-> FALSE, queueInfo |-> <<>>]}

NoHandle == [kind |-> "none", name |-> "none", pool |-> NoPool]

\* before createJobQueueBackend is called
NothingBuilt ==
    /\ built = "none"
    /\ phase = "none"
    /\ pool = NoPool
    /\ db = NoPool
    /\ pgQueues = [n \in QueueNames |-> NoPool]
    /\ poolsMade = 0
    /\ openPools = {}
    /\ clients = {}
    /\ sqsQueues = {}
    /\ handle = NoHandle
    /\ lastQueue = "none"
    /\ lastOp = "none"

\* no hub beside the queue's callers
NoHub ==
    /\ hubConfig = [backend |-> "postgres", connectionString |-> "postgres://hub",
                    hasQueueInfo |-> FALSE, queueInfo |-> <<>>]
    /\ NothingBuilt

----------------------------------------------------------------------------
\* every caller's process is alive
NoCrash == crashedIn = [w \in Callers |-> "alive"]

Init ==
    /\ NoCrash
    /\ NoAgent
    /\ NoHub
    /\ NoScheduler
    /\ NoExecutor
    /\ backend \in {"relational", "managed"}
    /\ queueName \in QueueNamings
    /\ backend = "managed" => queueName = [w \in Callers |-> DefaultQueue]
    /\ now = 0
    /\ jobs = [j \in Ids |-> NoRow]
    /\ rowLock = [j \in Ids |-> NoWorker]
    /\ msgs = [m \in MsgIds |-> AbsentMsg]
    /\ inFlight = [c \in Callers |-> [j \in Ids |-> NoLease]]
    /\ issued = 0
    /\ overdue = FALSE
    /\ strays = 0
    /\ call = [w \in Callers |-> Idle]
    /\ last = "none"
    /\ held = [w \in Callers |-> {}]
    /\ claims = [j \in Ids |-> 0]
    /\ hist = [j \in Ids |-> NoHist]

\* The port under workers: a worker claims one job at a time and resolves the
\* job it holds with acknowledge or fail.
NextWorkers ==
    \/ \E w \in Callers, o \in EnqueueOptions : PgEnqueue(w, o)
    \/ \E w \in Callers, f \in Filters : held[w] = {} /\ PgDequeueSelect(w, f)
    \/ \E w \in Callers : PgDequeueUpdate(w)
    \/ \E w \in Callers : \E j \in held[w] : PgAcknowledge(w, j)
    \/ \E w \in Callers, e \in Errors, r \in BOOLEAN :
          \E j \in held[w] : PgFailRead(w, j, e, r)
    \/ \E w \in Callers : PgFailWrite(w)
    \/ \E w \in Callers : PgFailReset(w)
    \/ \E c \in Callers, o \in EnqueueOptions : SqsEnqueue(c, o)
    \/ \E c \in Callers, f \in Filters : held[c] = {} /\ SqsDequeue(c, f)
    \/ \E c \in Callers, stale \in BOOLEAN :
          \E j \in held[c] : SqsAcknowledge(c, j, stale)
    \/ \E c \in Callers, e \in Errors, r \in BOOLEAN, stale \in BOOLEAN :
          \E j \in held[c] : SqsFailDelete(c, j, e, r, stale)
    \/ \E c \in Callers : SqsFailSend(c)
    \/ Tick
    \/ TickToVisible

SpecWorkers == Init /\ [][NextWorkers]_vars

\* The port under any callers: acknowledge and fail are also called with the
\* id of a job the caller does not hold (resolved before, never claimed, or
\* unknown), MaxStrays times.  MaxOpenJobs jobs are enqueued.
OpenIds == 1..MaxOpenJobs

MayCall(w, j) == strays + Stray(w, j) <= MaxStrays

\* the managed queue's timers are followed for one visibility timeout
MaxOpenClock == VisibilityTimeout + MaxTime

Next ==
    \/ \E w \in Callers, o \in EnqueueOptions :
          (\E j \in OpenIds : ~Exists(j)) /\ PgEnqueue(w, o)
    \/ \E w \in Callers, f \in Filters : held[w] = {} /\ PgDequeueSelect(w, f)
    \/ \E w \in Callers : PgDequeueUpdate(w)
    \/ \E w \in Callers, j \in Ids : MayCall(w, j) /\ PgAcknowledge(w, j)
    \/ \E w \in Callers, e \in Errors, r \in BOOLEAN, j \in Ids :
          MayCall(w, j) /\ PgFailRead(w, j, e, r)
    \/ \E w \in Callers : PgFailWrite(w)
    \/ \E w \in Callers : PgFailReset(w)
    \/ \E c \in Callers, o \in EnqueueOptions : SqsEnqueue(c, o)
    \/ \E c \in Callers, f \in Filters : held[c] = {} /\ SqsDequeue(c, f)
    \/ \E c \in Callers, stale \in BOOLEAN, j \in Ids :
          MayCall(c, j) /\ SqsAcknowledge(c, j, stale)
    \/ \E c \in Callers, e \in Errors, r \in BOOLEAN, stale \in BOOLEAN,
          j \in Ids : MayCall(c, j) /\ SqsFailDelete(c, j, e, r, stale)
    \/ \E c \in Callers : SqsFailSend(c)
    \/ Tick
    \/ TickToVisible /\ now' <= MaxOpenClock

Spec == Init /\ [][Next]_vars

----------------------------------------------------------------------------
(* The agent's WorkerService: start, stop, runWorkerLoop and processJob.    *)
(* A step runs a call from one await to the next; the queue consumer, the   *)
(* runs API and the executor answer each call by returning or by throwing.  *)

Outcomes == {"ok", "throws"}

InFlightLoops == {l \in LoopIds : loops[l].pc \notin {"unborn", "done"}}

\* while (this.isRunning): the next poll, or the end of the loop
LoopHead(lp, running) ==
    IF running
    THEN [NoLoopCall EXCEPT !.pc = "poll"]
    ELSE [NoLoopCall EXCEPT !.pc = "done"]

\* start(): throws on a running worker, else runs a new runWorkerLoop up to
\* its first poll
WorkerStart ==
    /\ IF isRunning
       THEN /\ lastStart' = "threw"
            /\ UNCHANGED <<isRunning, workerPromise, loops>>
       ELSE \E l \in LoopIds :
            /\ loops[l].pc = "unborn"
            /\ \A k \in LoopIds : k < l => loops[k].pc # "unborn"
            /\ isRunning' = TRUE
            /\ loops' = [loops EXCEPT ![l] = LoopHead(loops[l], TRUE)]
            /\ workerPromise' = l
            /\ lastStart' = "ok"
    /\ UNCHANGED <<notAgent, workerConfig, currentEmptyDelay, stops, runRecord,
                   emptyRun, sleepsEnded>>

\* stop(): returns at once on a worker that is not running, else clears
\* isRunning and awaits workerPromise
WorkerStop(s) ==
    /\ stops[s].state = "idle"
    /\ IF ~isRunning
       THEN /\ stops' = [stops EXCEPT ![s] =
                  [state |-> "returned", on |-> NoLoop, saw |-> InFlightLoops]]
            /\ UNCHANGED isRunning
       ELSE /\ isRunning' = FALSE
            /\ stops' = [stops EXCEPT ![s] =
                  [state |-> IF workerPromise # NoLoop THEN "waiting"
                             ELSE "returned",
                   on |-> workerPromise, saw |-> InFlightLoops]]
    /\ UNCHANGED <<notAgent, workerConfig, workerPromise, currentEmptyDelay,
                   loops, runRecord, lastStart, emptyRun, sleepsEnded>>

\* stop(), after the await: the awaited runWorkerLoop has returned
WorkerStopReturn(s) ==
    /\ stops[s].state = "waiting"
    /\ loops[stops[s].on].pc = "done"
    /\ stops' = [stops EXCEPT ![s].state = "returned"]
    /\ UNCHANGED <<notAgent, workerConfig, isRunning, workerPromise,
                   currentEmptyDelay, loops, runRecord, lastStart, emptyRun,
                   sleepsEnded>>

\* the catch of processJob: the run record update to failed is issued
ProcessCatch(lp, err) ==
    [lp EXCEPT !.pc = "runs_error", !.error = err,
               !.trail = Append(lp.trail, "runs.error")]

\* poll returns: null -> sleep(currentEmptyDelay); a job -> the delay is
\* reset and processJob issues the update to running; a throw -> sleep(1000)
LoopPoll(l) ==
    /\ loops[l].pc = "poll"
    /\ \/ /\ loops' = [loops EXCEPT ![l].pc = "sleep_empty",
                                    ![l].sleep = currentEmptyDelay]
          /\ emptyRun' = IF emptyRun < MaxStreak THEN emptyRun + 1 ELSE emptyRun
          /\ UNCHANGED <<currentEmptyDelay, sleepsEnded>>
       \/ \E j \in AgentJobs :
          /\ currentEmptyDelay' = workerConfig.emptyDelay
          /\ loops' = [loops EXCEPT ![l].pc = "runs_running", ![l].job = j,
                                    ![l].trail = <<"runs.running">>]
          /\ emptyRun' = 0
          /\ sleepsEnded' = 0
       \/ /\ loops' = [loops EXCEPT ![l].pc = "sleep_error",
                                    ![l].sleep = ErrorDelay]
          /\ UNCHANGED <<currentEmptyDelay, emptyRun, sleepsEnded>>
    /\ UNCHANGED <<notAgent, workerConfig, isRunning, workerPromise, stops,
                   runRecord, lastStart>>

\* the empty-poll sleep ends and the delay grows by emptyDelay
LoopEmptySleep_Linear(l) ==
    /\ loops[l].pc = "sleep_empty"
    /\ currentEmptyDelay' =
          IF currentEmptyDelay + workerConfig.emptyDelay
                < workerConfig.maxEmptyDelay
          THEN currentEmptyDelay + workerConfig.emptyDelay
          ELSE workerConfig.maxEmptyDelay
    /\ sleepsEnded' = IF sleepsEnded < MaxStreak THEN sleepsEnded + 1
                      ELSE sleepsEnded
    /\ loops' = [loops EXCEPT ![l] = LoopHead(loops[l], isRunning)]
    /\ UNCHANGED <<notAgent, workerConfig, isRunning, workerPromise, stops,
                   runRecord, lastStart, emptyRun>>

\* the empty-poll sleep ends: the delay doubles up to maxEmptyDelay; continue
LoopEmptySleep(l) ==
    /\ loops[l].pc = "sleep_empty"
    /\ currentEmptyDelay' =
          IF currentEmptyDelay * 2 < workerConfig.maxEmptyDelay
          THEN currentEmptyDelay * 2 ELSE workerConfig.maxEmptyDelay
    /\ sleepsEnded' = IF sleepsEnded < MaxStreak THEN sleepsEnded + 1
                      ELSE sleepsEnded
    /\ loops' = [loops EXCEPT ![l] = LoopHead(loops[l], isRunning)]
    /\ UNCHANGED <<notAgent, workerConfig, isRunning, workerPromise, stops,
                   runRecord, lastStart, emptyRun>>

\* the sleep of the loop's catch ends
LoopErrorSleep(l) ==
    /\ loops[l].pc = "sleep_error"
    /\ loops' = [loops EXCEPT ![l] = LoopHead(loops[l], isRunning)]
    /\ UNCHANGED <<notAgent, workerConfig, isRunning, workerPromise,
                   currentEmptyDelay, stops, runRecord, lastStart, emptyRun,
                   sleepsEnded>>

\* the update to running returns; a plan without organization throws;
\* else executePlanV1 is called
ProcessRunning(l, out, hasOrganization) ==
    /\ loops[l].pc = "runs_running"
    /\ IF out = "ok"
       THEN /\ runRecord' = [runRecord EXCEPT ![loops[l].job] =
                  [status |-> RUNNING, error |-> NoError]]
            /\ loops' = [loops EXCEPT ![l] =
                  IF hasOrganization
                  THEN [loops[l] EXCEPT !.pc = "execute",
                                        !.trail = Append(@, "execute")]
                  ELSE ProcessCatch(loops[l], "boom")]
       ELSE /\ loops' = [loops EXCEPT ![l] = ProcessCatch(loops[l], "boom")]
            /\ UNCHANGED runRecord
    /\ UNCHANGED <<notAgent, workerConfig, isRunning, workerPromise,
                   currentEmptyDelay, stops, lastStart, emptyRun, sleepsEnded>>

\* the result update reporting completed whatever the result
ResultStatus_AlwaysCompleted(success) == COMPLETED

\* the status of the result update: it mirrors result.success
ResultStatus(success) == IF success THEN COMPLETED ELSE FAILED

\* executePlanV1 returns a result, and the update with the result is issued,
\* or it throws
ProcessExecute(l) ==
    /\ loops[l].pc = "execute"
    /\ \/ \E success \in BOOLEAN :
             loops' = [loops EXCEPT ![l].pc = "runs_result",
                          ![l].success = success,
                          ![l].error = IF success THEN NoError ELSE "boom",
                          ![l].trail = Append(@, "runs." \o ResultStatus(success))]
       \/ loops' = [loops EXCEPT ![l] = ProcessCatch(loops[l], "boom")]
    /\ UNCHANGED <<notAgent, workerConfig, isRunning, workerPromise,
                   currentEmptyDelay, stops, runRecord, lastStart, emptyRun,
                   sleepsEnded>>

\* the update with the result returns, and acknowledge is called
ProcessResult(l, out) ==
    /\ loops[l].pc = "runs_result"
    /\ IF out = "ok"
       THEN /\ runRecord' = [runRecord EXCEPT ![loops[l].job] =
                  [status |-> ResultStatus(loops[l].success),
                   error |-> loops[l].error]]
            /\ loops' = [loops EXCEPT ![l].pc = "acknowledge",
                                      ![l].trail = Append(@, "acknowledge")]
       ELSE /\ loops' = [loops EXCEPT ![l] = ProcessCatch(loops[l], "boom")]
            /\ UNCHANGED runRecord
    /\ UNCHANGED <<notAgent, workerConfig, isRunning, workerPromise,
                   currentEmptyDelay, stops, lastStart, emptyRun, sleepsEnded>>

\* acknowledge returns and processJob with it, or it throws into the catch
ProcessAcknowledge(l, out) ==
    /\ loops[l].pc = "acknowledge"
    /\ loops' = [loops EXCEPT ![l] =
          IF out = "ok" THEN LoopHead(loops[l], isRunning)
          ELSE ProcessCatch(loops[l], "boom")]
    /\ UNCHANGED <<notAgent, workerConfig, isRunning, workerPromise,
                   currentEmptyDelay, stops, runRecord, lastStart, emptyRun,
                   sleepsEnded>>

\* the catch's update to failed, a throw of which leaves processJob
ProcessFailedUpdate_Rethrow(l, out) ==
    /\ loops[l].pc = "runs_error"
    /\ runRecord' = IF out = "ok"
                    THEN [runRecord EXCEPT ![loops[l].job] =
                             [status |-> FAILED, error |-> loops[l].error]]
                    ELSE runRecord
    /\ loops' = [loops EXCEPT ![l] =
          IF out = "ok"
          THEN [loops[l] EXCEPT !.pc = "fail", !.trail = Append(@, "fail")]
          ELSE [loops[l] EXCEPT !.pc = "sleep_error", !.sleep = ErrorDelay]]
    /\ UNCHANGED <<notAgent, workerConfig, isRunning, workerPromise,
                   currentEmptyDelay, stops, lastStart, emptyRun, sleepsEnded>>

\* the catch's update to failed returns or throws; fail(jobId, error, true)
\* is called after either
ProcessFailedUpdate(l, out) ==
    /\ loops[l].pc = "runs_error"
    /\ runRecord' = IF out = "ok"
                    THEN [runRecord EXCEPT ![loops[l].job] =
                             [status |-> FAILED, error |-> loops[l].error]]
                    ELSE runRecord
    /\ loops' = [loops EXCEPT ![l].pc = "fail", ![l].trail = Append(@, "fail")]
    /\ UNCHANGED <<notAgent, workerConfig, isRunning, workerPromise,
                   currentEmptyDelay, stops, lastStart, emptyRun, sleepsEnded>>

\* fail returns and processJob with it, or it throws into the loop's catch
ProcessFail(l, out) ==
    /\ loops[l].pc = "fail"
    /\ loops' = [loops EXCEPT ![l] =
          IF out = "ok" THEN LoopHead(loops[l], isRunning)
          ELSE [loops[l] EXCEPT !.pc = "sleep_error", !.sleep = ErrorDelay]]
    /\ UNCHANGED <<notAgent, workerConfig, isRunning, workerPromise,
                   currentEmptyDelay, stops, runRecord, lastStart, emptyRun,
                   sleepsEnded>>

\* the queue of the first sections left alone
QueueAtRest ==
    /\ NoCrash
    /\ backend = "relational"
    /\ queueName = [w \in Callers |-> DefaultQueue]
    /\ now = 0
    /\ jobs = [j \in Ids |-> NoRow]
    /\ rowLock = [j \in Ids |-> NoWorker]
    /\ msgs = [m \in MsgIds |-> AbsentMsg]
    /\ inFlight = [c \in Callers |-> [j \in Ids |-> NoLease]]
    /\ issued = 0
    /\ overdue = FALSE
    /\ strays = 0
    /\ call = [w \in Callers |-> Idle]
    /\ last = "none"
    /\ held = [w \in Callers |-> {}]
    /\ claims = [j \in Ids |-> 0]
    /\ hist = [j \in Ids |-> NoHist]

InitAgent ==
    /\ QueueAtRest
    /\ NoExecutor
    /\ NoScheduler
    /\ NoHub
    /\ workerConfig \in WorkerConfigs
    /\ WorkerConstructed

NextAgent ==
    \/ WorkerStart
    \/ \E s \in StopIds : WorkerStop(s)
    \/ \E s \in StopIds : WorkerStopReturn(s)
    \/ \E l \in LoopIds : LoopPoll(l)
    \/ \E l \in LoopIds : LoopEmptySleep(l)
    \/ \E l \in LoopIds : LoopErrorSleep(l)
    \/ \E l \in LoopIds, out \in Outcomes, hasOrganization \in BOOLEAN :
          ProcessRunning(l, out, hasOrganization)
    \/ \E l \in LoopIds : ProcessExecute(l)
    \/ \E l \in LoopIds, out \in Outcomes : ProcessResult(l, out)
    \/ \E l \in LoopIds, out \in Outcomes : ProcessAcknowledge(l, out)
    \/ \E l \in LoopIds, out \in Outcomes : ProcessFailedUpdate(l, out)
    \/ \E l \in LoopIds, out \in Outcomes : ProcessFail(l, out)

SpecAgent == InitAgent /\ [][NextAgent]_vars

----------------------------------------------------------------------------
(* The hub's job queue backend: createJobQueueBackend, and connect,          *)
(* disconnect and queue of PostgresJobQueueBackend and SqsJobQueueBackend.   *)

notHub == <<queueVars, agentVars, schedVars, execVars, crashVars>>

\* SqsJobQueueBackend's constructor refuses a missing or empty queueInfo
SqsConfigured(cfg) == cfg.hasQueueInfo /\ Len(cfg.queueInfo) > 0

\* createJobQueueBackend: the switch on config.backend and the constructors
CreateJobQueueBackend ==
    /\ built = "none"
    /\ built' = CASE hubConfig.backend = "postgres" -> "postgres"
                  [] hubConfig.backend = "sqs" ->
                        IF SqsConfigured(hubConfig) THEN "sqs" ELSE "threw"
                  [] OTHER -> "threw"
    /\ clients' = IF built' = "sqs"
                  THEN {hubConfig.queueInfo[i].region :
                           i \in DOMAIN hubConfig.queueInfo}
                  ELSE clients
    /\ phase' = IF built' = "threw" THEN "none" ELSE "constructed"
    /\ UNCHANGED <<notHub, hubConfig, pool, db, pgQueues, poolsMade, openPools,
                   sqsQueues, handle, lastQueue, lastOp>>

\* connect(): a new Pool and a drizzle db over it; nothing for SQS
BackendConnect ==
    /\ built \in {"postgres", "sqs"}
    /\ IF built = "postgres"
       THEN /\ poolsMade < MaxPools
            /\ poolsMade' = poolsMade + 1
            /\ pool' = poolsMade'
            /\ db' = poolsMade'
            /\ openPools' = openPools \cup {poolsMade'}
       ELSE UNCHANGED <<poolsMade, pool, db, openPools>>
    /\ phase' = "connected"
    /\ UNCHANGED <<notHub, hubConfig, built, pgQueues, clients, sqsQueues,
                   handle, lastQueue, lastOp>>

\* disconnect(): the pool is ended and pool and db are cleared; the SQS
\* clients are destroyed and clients and queues are cleared
BackendDisconnect ==
    /\ built \in {"postgres", "sqs"}
    /\ IF built = "postgres"
       THEN /\ openPools' = openPools \ {pool}
            /\ pool' = NoPool
            /\ db' = NoPool
            /\ UNCHANGED <<clients, sqsQueues>>
       ELSE /\ clients' = {}
            /\ sqsQueues' = {}
            /\ UNCHANGED <<openPools, pool, db>>
    /\ phase' = "disconnected"
    /\ UNCHANGED <<notHub, hubConfig, built, pgQueues, poolsMade, handle,
                   lastQueue, lastOp>>

\* queueUrlsByName.get(name): the last queueInfo entry of that name
QueueUrl(name) ==
    LET at == {i \in DOMAIN hubConfig.queueInfo :
                  hubConfig.queueInfo[i].name = name}
    IN IF at = {} THEN [region |-> "none", urlRegion |-> "none", name |-> "none"]
       ELSE hubConfig.queueInfo[CHOOSE i \in at : \A k \in at : k <= i]

\* SqsJobQueueBackend.queue(name) finds the url, its region and the client
SqsQueueFound(name) ==
    /\ QueueUrl(name).name = name
    /\ QueueUrl(name).urlRegion # "none"
    /\ QueueUrl(name).urlRegion \in clients

\* queue(name): the handle kept for the name, or a new one over db (over the
\* region's client), or a throw
BackendQueue(name) ==
    /\ built \in {"postgres", "sqs"}
    /\ IF built = "postgres"
       THEN /\ IF pgQueues[name] = NoPool /\ db = NoPool
               THEN /\ lastQueue' = "threw"
                    /\ UNCHANGED <<pgQueues, handle>>
               ELSE /\ pgQueues' = [pgQueues EXCEPT ![name] =
                                       IF @ = NoPool THEN db ELSE @]
                    /\ handle' = [kind |-> "postgres", name |-> name,
                                  pool |-> pgQueues'[name]]
                    /\ lastQueue' = "handle"
            /\ UNCHANGED sqsQueues
       ELSE /\ IF name \notin sqsQueues /\ ~SqsQueueFound(name)
               THEN /\ lastQueue' = "threw"
                    /\ UNCHANGED <<sqsQueues, handle>>
               ELSE /\ sqsQueues' = sqsQueues \cup {name}
                    /\ handle' = [kind |-> "sqs", name |-> name, pool |-> NoPool]
                    /\ lastQueue' = "handle"
            /\ UNCHANGED pgQueues
    /\ UNCHANGED <<notHub, hubConfig, built, phase, pool, db, poolsMade,
                   openPools, clients, lastOp>>

\* what an operation on a handle can do: a query on an ended pool throws; a
\* pool without connection string connects to what the environment names,
\* if anything; a destroyed SQS client may or may not send
OpOutcomes(h) ==
    IF h.kind = "postgres"
    THEN IF h.pool \notin openPools THEN {"threw"}
         ELSE IF hubConfig.connectionString = "undefined" THEN {"ok", "threw"}
         ELSE {"ok"}
    ELSE IF clients = {} THEN {"ok", "threw"} ELSE {"ok"}

\* an enqueue, dequeue, ... on the handle the caller has
HandleOp(out) ==
    /\ handle # NoHandle
    /\ out \in OpOutcomes(handle)
    /\ lastOp' = out
    /\ UNCHANGED <<notHub, hubConfig, built, phase, pool, db, pgQueues,
                   poolsMade, openPools, clients, sqsQueues, handle, lastQueue>>

InitHub ==
    /\ QueueAtRest
    /\ NoExecutor
    /\ NoScheduler
    /\ NoAgent
    /\ hubConfig \in HubConfigs
    /\ NothingBuilt

NextHub ==
    \/ CreateJobQueueBackend
    \/ BackendConnect
    \/ BackendDisconnect
    \/ \E name \in QueueNames : BackendQueue(name)
    \/ \E out \in Outcomes : HandleOp(out)

SpecHub == InitHub /\ [][NextHub]_vars

----------------------------------------------------------------------------
(* The scheduler: start, stop and the tick of SchedulerService, and the     *)
(* due-plan query and calculateNextRun it uses.                            *)

\* milliseconds of a frequency unit
UnitMs(unit) ==
    CASE unit = "minute" -> 60000
      [] unit = "hour" -> 3600000
      [] unit = "day" -> 86400000

\* calculateNextRun: the last scheduled time plus the frequency's interval
CalculateNextRun(frequency, lastScheduled) ==
    lastScheduled + frequency.every * UnitMs(frequency.unit)

\* the plans whose next run is due at time at, as it would be with a due
\* time that has to be passed
FindDuePlans_Strict(at) ==
    {p \in PlanIds :
        \/ planStore[p].lastScheduled = NoTime
        \/ CalculateNextRun(planStore[p].frequency,
                            planStore[p].lastScheduled) < at}

\* findDuePlans*: the plans never scheduled, and those whose next run is not
\* after time at
FindDuePlans(at) ==
    {p \in PlanIds :
        \/ planStore[p].lastScheduled = NoTime
        \/ CalculateNextRun(planStore[p].frequency,
                            planStore[p].lastScheduled) <= at}

\* the pairs of a plan of the set and a location configured for it
PlanLocations(due) ==
    {pl \in due \X Locations : pl[2] \in planStore[pl[1]].locations}

RECURSIVE JobsOf(_, _)
\* the job of each pair, one after the other
JobsOf(pairs, at) ==
    IF pairs = {} THEN <<>>
    ELSE LET pl == CHOOSE x \in pairs : TRUE
         IN <<[planId |-> pl[1], location |-> pl[2], scheduledAt |-> at]>>
            \o JobsOf(pairs \ {pl}, at)

\* the jobs of a tick, as they would be with one job per due plan
TickJobs_OnePerPlan(due, at) ==
    JobsOf({pl \in PlanLocations(due) :
               \A other \in PlanLocations(due) :
                   other[1] = pl[1] => other = pl \/ pl[2] = "us-east"}, at)

\* the jobs a tick enqueues: one for each due plan and each of its locations
TickJobs(due, at) == JobsOf(PlanLocations(due), at)

\* start(): the tick timer is set, unless the scheduler runs already
SchedulerStart ==
    /\ schedLast # "stopping"
    /\ IF schedRunning
       THEN /\ schedLast' = "running already"
            /\ UNCHANGED <<schedRunning, nextTick, timers>>
       ELSE /\ schedRunning' = TRUE
            /\ nextTick' = clock + DefaultTickInterval
            /\ timers' = timers + 1
            /\ schedLast' = "started"
    /\ UNCHANGED <<notSched, planStore, clock, outbox, lastDue, triggered,
                   tickInFlight, stopWaited>>

\* stop() as it would be if it returned without waiting for the tick
SchedulerStop_NoWait ==
    /\ schedLast # "stopping"
    /\ IF schedRunning
       THEN /\ schedRunning' = FALSE
            /\ nextTick' = NoTime
            /\ timers' = 0
            /\ schedLast' = "stopped"
            /\ stopWaited' = tickInFlight
       ELSE /\ schedLast' = "stopped already"
            /\ UNCHANGED <<schedRunning, nextTick, timers, stopWaited>>
    /\ UNCHANGED <<notSched, planStore, clock, outbox, lastDue, triggered,
                   tickInFlight>>

\* stop(): the tick timer is cleared and the call waits for the tick in
\* flight, unless the scheduler is stopped already
SchedulerStop ==
    /\ schedLast # "stopping"
    /\ IF schedRunning
       THEN /\ schedRunning' = FALSE
            /\ nextTick' = NoTime
            /\ timers' = 0
            /\ schedLast' = IF tickInFlight THEN "stopping" ELSE "stopped"
            /\ stopWaited' = tickInFlight
       ELSE /\ schedLast' = "stopped already"
            /\ UNCHANGED <<schedRunning, nextTick, timers, stopWaited>>
    /\ UNCHANGED <<notSched, planStore, clock, outbox, lastDue, triggered,
                   tickInFlight>>

\* stop() returns: the tick it waited for has finished
SchedulerStopReturn ==
    /\ schedLast = "stopping"
    /\ ~tickInFlight
    /\ schedLast' = "stopped"
    /\ UNCHANGED <<notSched, planStore, schedRunning, clock, nextTick, outbox,
                   lastDue, triggered, tickInFlight, timers, stopWaited>>

\* time passes
ClockAdvance ==
    /\ clock < MaxTicks * DefaultTickInterval
    /\ clock' = clock + DefaultTickInterval
    /\ UNCHANGED <<notSched, planStore, schedRunning, nextTick, outbox,
                   lastDue, triggered, schedLast, tickInFlight, timers,
                   stopWaited>>

\* the timer fires: the due plans are queried, a job is enqueued for each
\* due plan and location, and the plans are marked as scheduled now
SchedulerTick ==
    /\ schedRunning
    /\ timers > 0
    /\ ~tickInFlight
    /\ nextTick # NoTime
    /\ clock >= nextTick
    /\ tickInFlight' = TRUE
    /\ lastDue' = FindDuePlans(clock)
    /\ outbox' = TickJobs(lastDue', clock)
    /\ planStore' = [p \in PlanIds |->
                        IF p \in lastDue'
                        THEN [planStore[p] EXCEPT !.lastScheduled = clock]
                        ELSE planStore[p]]
    /\ triggered' = [p \in PlanIds |->
                        IF p \in lastDue' THEN clock ELSE triggered[p]]
    /\ nextTick' = clock + DefaultTickInterval
    /\ UNCHANGED <<notSched, schedRunning, clock, schedLast, timers,
                   stopWaited>>

\* the tick's enqueue calls have returned: the tick is over
SchedulerTickFinish ==
    /\ tickInFlight
    /\ tickInFlight' = FALSE
    /\ UNCHANGED <<notSched, planStore, schedRunning, clock, nextTick, outbox,
                   lastDue, triggered, schedLast, timers, stopWaited>>

InitScheduler ==
    /\ QueueAtRest
    /\ NoExecutor
    /\ NoAgent
    /\ NoHub
    /\ planStore \in PlanStores
    /\ SchedulerConstructed

NextScheduler ==
    \/ SchedulerStart
    \/ SchedulerStop
    \/ SchedulerStopReturn
    \/ ClockAdvance
    \/ SchedulerTick
    \/ SchedulerTickFinish

SpecScheduler == InitScheduler /\ [][NextScheduler]_vars

----------------------------------------------------------------------------
(* The plan executor: executePlanV1, the nodes buildNode makes and the run  *)
(* of the graph from the start node along the edges.                       *)

PlanNodes == DOMAIN plan.kind

\* incomingEdges and outgoingEdges of executePlanV1
IncomingEdges == {plan.next[n] : n \in PlanNodes} \ {NoNode}
OutgoingEdges == {n \in PlanNodes : plan.next[n] # NoNode}

\* plan.nodes.find(...): the first node of the plan that is not in the set
FirstNotIn(set) ==
    IF PlanNodes \ set = {} THEN NoNode
    ELSE CHOOSE n \in PlanNodes \ set : \A k \in PlanNodes \ set : n <= k

StartNode == FirstNotIn(IncomingEdges)
EndNode == FirstNotIn(OutgoingEdges)

RECURSIVE Reaches(_, _)
\* the run from the node comes to a node without edge within the steps
Reaches(n, steps) ==
    IF plan.next[n] = NoNode THEN TRUE
    ELSE IF steps = 0 THEN FALSE
    ELSE Reaches(plan.next[n], steps - 1)

\* the plans the run of which ends: no start or end node, or a path from
\* the start node that does not enter a cycle
RunEnds ==
    (StartNode # NoNode /\ EndNode # NoNode) => Reaches(StartNode, MaxNodes)

CouldNotDetermine ==
    [node |-> NoNode,
     message |-> "Could not determine start or end node from plan"]

\* executePlanV1 up to the run of the graph: the start and the end node are
\* looked for, and without one of them the call returns
ExecutePlanV1 ==
    /\ execPc = "idle"
    /\ IF StartNode = NoNode \/ EndNode = NoNode
       THEN /\ execPc' = "returned"
            /\ execResult' = [returned |-> TRUE, success |-> FALSE,
                              results |-> <<>>,
                              errors |-> <<CouldNotDetermine>>]
            /\ UNCHANGED cursor
       ELSE /\ execPc' = "running"
            /\ cursor' = StartNode
            /\ UNCHANGED execResult
    /\ UNCHANGED <<notExec, plan, responses, results, errors, executed>>

\* executeEndpoint, executeWait and executeAssertions: what the node returns
NodeOutcome(kind) ==
    CASE kind = "endpoint" ->
            [success |-> TRUE, response |-> TRUE, error |-> "undefined"]
      [] kind = "endpoint fails" ->
            [success |-> FALSE, response |-> FALSE,
             error |-> "No stub matched request"]
      [] kind = "endpoint fails silently" ->
            [success |-> FALSE, response |-> FALSE, error |-> ""]
      [] OTHER ->
            [success |-> TRUE, response |-> FALSE, error |-> "undefined"]

\* `!result.success && result.error`
TracksError(out) == ~out.success /\ out.error \notin {"", "undefined"}

\* the graph run is over: executePlanV1 returns the final state
RunReturns(res, errs) ==
    /\ execPc' = "returned"
    /\ execResult' = [returned |-> TRUE, success |-> Len(errs) = 0,
                      results |-> res, errors |-> errs]

\* the run executes the node it is at; the node's execute adds its result
\* to the state and the run follows the node's edge, or ends
NodeExecute ==
    /\ execPc = "running"
    /\ plan.kind[cursor] # "endpoint xml"
    /\ LET out == NodeOutcome(plan.kind[cursor])
       IN /\ responses' = IF out.success /\ out.response
                          THEN responses \cup {cursor} ELSE responses
          /\ results' = Append(results,
                               [nodeId |-> cursor, success |-> out.success,
                                response |-> out.response, error |-> out.error])
          /\ errors' = IF TracksError(out)
                       THEN Append(errors, [node |-> cursor, message |-> out.error])
                       ELSE errors
    /\ executed' = Append(executed, cursor)
    /\ IF plan.next[cursor] = NoNode
       THEN /\ RunReturns(results', errors')
            /\ UNCHANGED cursor
       ELSE /\ cursor' = plan.next[cursor]
            /\ UNCHANGED <<execPc, execResult>>
    /\ UNCHANGED <<notExec, plan>>

Unsupported ==
    [node |-> NoNode, message |-> "Unsupported response format"]

\* the node at the cursor is an endpoint of another response format:
\* executeEndpoint throws, the run of the graph fails, and executePlanV1
\* returns what the failed run gives as its output, or the run's error
NodeThrows(hasOutput) ==
    /\ execPc = "running"
    /\ plan.kind[cursor] = "endpoint xml"
    /\ executed' = Append(executed, cursor)
    /\ execPc' = "returned"
    /\ execResult' = [returned |-> TRUE, success |-> FALSE,
                      results |-> IF hasOutput THEN results ELSE <<>>,
                      errors |-> IF hasOutput THEN errors ELSE <<Unsupported>>]
    /\ UNCHANGED <<notExec, plan, cursor, responses, results, errors>>

InitExecutor ==
    /\ QueueAtRest
    /\ NoAgent
    /\ NoHub
    /\ NoScheduler
    /\ plan \in TestPlans
    /\ RunEnds
    /\ NotExecuting

NextExecutor ==
    \/ ExecutePlanV1
    \/ NodeExecute
    \/ \E hasOutput \in BOOLEAN : NodeThrows(hasOutput)

SpecExecutor == InitExecutor /\ [][NextExecutor]_vars

----------------------------------------------------------------------------
(* The queue under faults: a statement of fail that throws, and a worker   *)
(* process that dies.  Each worker polls the location it is bound to.      *)

\* the location a worker is bound to
Binding(w) == IF w = 1 THEN "us-east" ELSE "eu-west"

Live == {w \in Callers : crashedIn[w] = "alive"}

\* fail, the second UPDATE of a retry throws: the call ends with the row as
\* the first UPDATE left it
PgFailResetThrows(w) ==
    /\ backend = "relational"
    /\ call[w].op = "fail_reset"
    /\ Finish(w, "fail", call[w].job, "threw")
    /\ UNCHANGED <<svcVars, backend, queueName, now, jobs, rowLock, held,
                   claims, hist, sqsVars, strays>>

\* fail, the DeleteMessage throws: the call ends before anything is sent and
\* the job stays in inFlightJobs
SqsFailDeleteThrows(c, j) ==
    /\ backend = "managed"
    /\ call[c].op = "idle"
    /\ inFlight[c][j].msg # NoMsg
    /\ Finish(c, "fail", j, "threw")
    /\ UNCHANGED <<svcVars, backend, queueName, now, pgVars, sqsVars, held,
                   claims, hist, strays>>

\* fail, the SendMessage of the retry throws: the call ends after the
\* delete and the job stays in inFlightJobs
SqsFailSendThrows(c) ==
    /\ backend = "managed"
    /\ call[c].op = "fail_send"
    /\ Finish(c, "fail", call[c].job, "threw")
    /\ UNCHANGED <<svcVars, backend, queueName, now, pgVars, sqsVars, held,
                   claims, hist, strays>>

\* the process of a worker dies between two statements: while it holds a
\* job, or inside a fail call after its first statement
Crash(w) ==
    /\ w \in Live
    /\ \/ call[w].op = "idle" /\ held[w] # {}
       \/ call[w].op \in {"fail_reset", "fail_send"}
    /\ crashedIn' = [crashedIn EXCEPT ![w] = call[w].op]
    /\ call' = [call EXCEPT ![w] = Idle]
    /\ UNCHANGED <<agentVars, hubVars, schedVars, execVars, backend, queueName,
                   now, pgVars, sqsVars, last, held, claims, hist, strays>>

\* a time as it is counted from the instant t on, a past one as t itself
Shift(x, t) == IF x = NoTime THEN NoTime ELSE IF x <= t THEN now ELSE now + x - t

\* the instants ahead at which a message becomes visible or a job due
Ahead ==
    {msgs[m].visibleAt : m \in {k \in MsgIds : Queued(k)}}
        \cup {jobs[j].scheduledFor :
                 j \in {k \in Ids : jobs[k].status \in {PENDING, RETRYING}}}

\* a receipt handle is the latest of its message (1) or an older one (0)
Latest(lease) ==
    IF lease.msg = NoMsg THEN lease.receipt
    ELSE IF lease.receipt = msgs[lease.msg].receives THEN 1 ELSE 0

\* time passes up to the next such instant; every time kept is counted from
\* that instant on, and the receipt handles are told apart as the latest of
\* a message and the older ones
Elapse ==
    /\ \E t \in Ahead :
          /\ t > now
          /\ \A u \in Ahead : u > now => t <= u
          /\ jobs' = [j \in Ids |->
                        [jobs[j] EXCEPT !.scheduledFor = Shift(@, t),
                                        !.startedAt = Shift(@, t),
                                        !.completedAt = Shift(@, t)]]
          /\ msgs' = [m \in MsgIds |->
                        [msgs[m] EXCEPT !.scheduledFor = Shift(@, t),
                                        !.createdAt = Shift(@, t),
                                        !.visibleAt = Shift(@, t),
                                        !.receives = IF @ > 0 THEN 1 ELSE 0]]
          /\ inFlight' = [c \in Callers |-> [j \in Ids |->
                            [inFlight[c][j] EXCEPT !.scheduledFor = Shift(@, t),
                                                   !.createdAt = Shift(@, t),
                                                   !.startedAt = Shift(@, t),
                                                   !.receipt =
                                                       Latest(inFlight[c][j])]]]
          /\ call' = [w \in Callers |->
                        [call[w] EXCEPT !.nextRunAt = Shift(@, t),
                                        !.at = Shift(@, t)]]
    /\ UNCHANGED <<svcVars, backend, queueName, now, rowLock, issued, last,
                   held, claims, hist, overdue, strays>>

\* a worker's poll of its location
Poll(w) ==
    /\ w \in Live
    /\ held[w] = {}
    /\ \/ PgDequeueSelect(w, Binding(w))
       \/ SqsDequeue(w, Binding(w))

\* a worker's acknowledge or fail of the job it holds
Resolve(w) ==
    /\ w \in Live
    /\ \E j \in held[w] :
          \/ PgAcknowledge(w, j)
          \/ \E e \in Errors, r \in BOOLEAN : PgFailRead(w, j, e, r)
          \/ \E stale \in BOOLEAN : SqsAcknowledge(w, j, stale)
          \/ \E e \in Errors, r \in BOOLEAN, stale \in BOOLEAN :
                SqsFailDelete(w, j, e, r, stale)
          \/ SqsFailDeleteThrows(w, j)

\* the statements a call of a worker goes on with
Continue(w) ==
    /\ w \in Live
    /\ \/ PgDequeueUpdate(w)
       \/ PgFailWrite(w)
       \/ PgFailReset(w)
       \/ PgFailResetThrows(w)
       \/ SqsFailSend(w)
       \/ SqsFailSendThrows(w)

\* a job is enqueued, as long as fewer than MaxOpenJobs were
Produce(w) ==
    /\ w \in Live
    /\ \E o \in EnqueueOptions :
          \/ (\E j \in OpenIds : ~Exists(j)) /\ PgEnqueue(w, o)
          \/ issued < MaxOpenJobs /\ SqsEnqueue(w, o)

NextFaults ==
    \/ \E w \in Callers : Produce(w)
    \/ \E w \in Callers : Poll(w)
    \/ \E w \in Callers : Continue(w)
    \/ \E w \in Callers : Resolve(w)
    \/ \E w \in Callers \ {1} : Crash(w)
    \/ Elapse

\* time passes, and a worker that is alive goes on polling and goes on with
\* the call it is in
FairFaults ==
    /\ WF_vars(Elapse)
    /\ \A w \in Callers : WF_vars(Poll(w)) /\ WF_vars(Continue(w))

InitFaults ==
    /\ Init
    /\ queueName = [w \in Callers |-> DefaultQueue]

SpecFaults == InitFaults /\ [][NextFaults]_vars /\ FairFaults

----------------------------------------------------------------------------
(* Properties *)

Holders(j) == {w \in Callers : j \in held[w]}

\* C1: relational backend under concurrent workers: no job is held by two
\* callers at once; as long as fail was never called every job is returned by
\* dequeue at most once and exactly the jobs that left pending were returned,
\* and dequeue returns null only when every row eligible for its filter is
\* locked by another caller's claim in progress.
C1_NoDoubleHold ==
    backend = "relational" =>
        /\ \A j \in Ids : Cardinality(Holders(j)) <= 1
        /\ (\A k \in Ids : ~hist[k].failed) =>
              \A j \in Ids :
                  /\ claims[j] <= 1
                  /\ claims[j] = 1 <=> jobs[j].status \in {RUNNING, COMPLETED}

C1_NullOnlyWhenDrained ==
    \A w \in Callers, f \in Filters :
        (held[w] = {} /\ PgDequeueSelect(w, f) /\ last' = "null"
            /\ call'[w].op = "idle" /\ call[w].op = "idle")
        => \A j \in Eligible(queueName[w], f) : rowLock[j] \notin {NoWorker, w}

C1_MutualExclusion == []C1_NoDoubleHold /\ [][C1_NullOnlyWhenDrained]_vars

\* Two workers are inside dequeue at once, each with its own row locked.
C1_Witness ==
    /\ backend = "relational"
    /\ \A w \in Callers : call[w].op = "dequeue"
    /\ \A k \in Ids : ~hist[k].failed

\* C2 as claimed: managed backend: a job leased by one consumer is never
\* leased to a second one before the first called acknowledge or fail, however
\* long the first one takes.
C2_AsClaimed ==
    backend = "managed" => \A j \in Ids : Cardinality(Holders(j)) <= 1

\* C2 as amended: the same as long as every consumer has called acknowledge or
\* fail within VisibilityTimeout seconds of its dequeue.
C2_LeaseExclusive ==
    (backend = "managed" /\ ~overdue)
        => \A j \in Ids : Cardinality(Holders(j)) <= 1

\* A consumer holds a lease that has not run out and the other consumer's
\* dequeue has just returned null.
C2_Witness ==
    /\ backend = "managed"
    /\ ~overdue
    /\ last = "null"
    /\ \E c \in Callers, j \in Ids :
          /\ j \in held[c]
          /\ now < inFlight[c][j].startedAt + VisibilityTimeout

\* C3: relational backend: the row dequeue returns was, when it was claimed,
\* pending, due (scheduledFor <= now) and of the location asked for.
C3_ClaimStep ==
    \A w \in Callers :
        PgDequeueUpdate(w) =>
            LET j == call[w].job IN
            /\ jobs[j].status = PENDING
            /\ jobs[j].scheduledFor <= now
            /\ (call[w].filter # AnyLocation
                    => jobs[j].location = call[w].filter)
            /\ jobs'[j].status = RUNNING

C3_Claimability == [][C3_ClaimStep]_vars

\* A job enqueued with a delay was claimed under a location filter once due.
C3_Witness ==
    /\ backend = "relational"
    /\ last = "job"
    /\ \E j \in Ids :
          /\ jobs[j].status = RUNNING
          /\ jobs[j].location = "eu-west"
          /\ jobs[j].startedAt >= 2

\* C4: a job whose status is completed or failed keeps that status through
\* every later call.
C4_TerminalKept ==
    \A j \in Ids :
        jobs[j].status \in {COMPLETED, FAILED}
            => jobs'[j].status = jobs[j].status

C4_TerminalAbsorbing == [][C4_TerminalKept]_vars

AcknowledgeReturns(w, j) ==
    \/ PgAcknowledge(w, j)
    \/ \E stale \in BOOLEAN : SqsAcknowledge(w, j, stale)

\* C5 as claimed: in both backends an acknowledge of a job that was
\* acknowledged before does not raise, and the job stays completed.
C5_SecondAckStep ==
    \A w \in Callers, j \in Ids :
        (hist[j].acked /\ AcknowledgeReturns(w, j))
            => /\ last' # "threw"
               /\ jobs[j].status = COMPLETED => jobs'[j].status = COMPLETED

C5_AsClaimed == [][C5_SecondAckStep]_vars

\* C5 as amended: relational backend: an acknowledge of a completed job that
\* was acknowledged before does not raise and leaves the status completed;
\* managed backend: an acknowledge by a consumer that holds no lease on the
\* job (as after its own acknowledge) raises and changes neither the queue
\* nor the consumer's in-flight jobs.
C5_RepeatedAckStep ==
    \A w \in Callers, j \in Ids :
        /\ (hist[j].acked /\ jobs[j].status = COMPLETED /\ PgAcknowledge(w, j))
              => /\ last' = "ok"
                 /\ jobs'[j].status = COMPLETED
                 /\ jobs'[j].completedAt = now
        /\ \A stale \in BOOLEAN :
              (hist[j].acked /\ j \notin held[w] /\ SqsAcknowledge(w, j, stale))
                  => /\ last' = "threw"
                     /\ msgs' = msgs
                     /\ inFlight' = inFlight

C5_RepeatedAcknowledge == [][C5_RepeatedAckStep]_vars

\* A completed job of the relational backend has been acknowledged twice.
C5_Witness ==
    /\ backend = "relational"
    /\ last = "ok"
    /\ \E j \in Ids :
          /\ hist[j].reacked
          /\ jobs[j].status = COMPLETED
          /\ ~hist[j].failed

\* C6: a job that a fail call marked failed (retry false, or attempts used up)
\* is never claimable again: it is never again pending or running.
C6_FailedStaysUnclaimable ==
    backend = "relational" =>
        \A j \in Ids :
            hist[j].terminalFail => jobs[j].status \notin {PENDING, RUNNING}

RetryUntilExhausted(j) ==
    /\ backend = "relational"
    /\ jobs[j].maxAttempts = 2
    /\ ~hist[j].hard
    /\ ~hist[j].acked

\* C7: relational backend, a job enqueued with maxAttempts = 2 that workers
\* only ever fail with retry = true: the first fail leaves it pending with
\* attempts 1, the error stored and scheduledFor 2 seconds after the fail
\* call; the second dequeue happens at or after scheduledFor and reports
\* attempts 2; the second fail leaves it failed with completedAt and the error
\* set; dequeue returns it at most twice.
C7_Exhaustion ==
    \A j \in Ids :
        RetryUntilExhausted(j) =>
            /\ claims[j] <= 2
            /\ jobs[j].attempts = claims[j]
            /\ hist[j].retries <= 1
            /\ (hist[j].retries = 1 /\ jobs[j].status = PENDING)
                  => /\ jobs[j].attempts = 1
                     /\ jobs[j].error \in Errors
                     /\ jobs[j].scheduledFor >= jobs[j].startedAt + 2
            /\ jobs[j].status = FAILED <=> hist[j].terminalFail
            /\ hist[j].terminalFail
                  => /\ claims[j] = 2
                     /\ hist[j].retries = 1
                     /\ jobs[j].completedAt # NoTime
                     /\ jobs[j].error \in Errors

C7_ExhaustionStep ==
    \A w \in Callers :
        LET j == call[w].job IN
        /\ (PgFailReset(w) /\ RetryUntilExhausted(j))
              => /\ jobs'[j].status = PENDING
                 /\ jobs'[j].scheduledFor = call[w].at + 2
                 /\ jobs'[j].scheduledFor > call[w].at
        /\ (PgDequeueUpdate(w) /\ RetryUntilExhausted(j)
                /\ hist[j].retries = 1)
              => /\ jobs'[j].attempts = 2
                 /\ now >= jobs[j].scheduledFor

C7_RetryExhaustion == []C7_Exhaustion /\ [][C7_ExhaustionStep]_vars

\* A job with maxAttempts = 2 was claimed twice and failed for good by the
\* second fail with retry = true.
C7_Witness ==
    \E j \in Ids :
        /\ RetryUntilExhausted(j)
        /\ hist[j].terminalFail
        /\ claims[j] = 2
        /\ jobs[j].status = FAILED

\* the maxAttempts a job was enqueued with, where the backend still knows it
JobMaxAttempts(j) ==
    IF backend = "relational"
    THEN {jobs[k].maxAttempts : k \in {i \in {j} : Exists(i)}}
    ELSE {msgs[m].maxAttempts : m \in {k \in MsgIds : Queued(k) /\ msgs[k].id = j}}
         \cup {inFlight[c][j].maxAttempts :
                  c \in {d \in Callers : inFlight[d][j].msg # NoMsg}}

\* the attempts values the backend reports for a job
JobAttempts(j) ==
    IF backend = "relational"
    THEN {jobs[j].attempts}
    ELSE {inFlight[c][j].attempts :
             c \in {d \in Callers : inFlight[d][j].msg # NoMsg}}

\* C8: dequeue returns a job at most maxAttempts + 1 times and the attempts
\* reported for it stay within that bound, also across leases that expire and
\* are redelivered.
C8_BoundedClaims ==
    \A j \in Ids : \A n \in JobMaxAttempts(j) :
        /\ claims[j] <= n + 1
        /\ \A a \in JobAttempts(j) : a <= n + 1

\* C9: the N-th fail of a job that retries schedules it at least 2^(N-1)
\* seconds after the time of the fail call (scheduledFor, and in the managed
\* backend the delay of the message sent as well).
C9_BackoffStep ==
    \A w \in Callers :
        LET j == call[w].job
            N == hist'[j].retries
        IN /\ (PgFailReset(w) /\ hist[j].retries < CountCap)
                 => jobs'[j].scheduledFor >= call[w].at + Pow2(N - 1)
           /\ (SqsFailSend(w) /\ hist[j].retries < CountCap)
                 => \A m \in MsgIds :
                       (~Queued(m) /\ msgs'[m].state = "queued")
                           => /\ msgs'[m].scheduledFor
                                     >= call[w].at + Pow2(N - 1)
                              /\ msgs'[m].visibleAt
                                     >= call[w].at + Pow2(N - 1)

C9_BackoffLowerBound == [][C9_BackoffStep]_vars

\* C10: a job is completed or failed only after a claim: it has attempts >= 1
\* and startedAt set.
C10_ClaimedBeforeTerminal ==
    backend = "relational" =>
        \A j \in Ids :
            jobs[j].status \in {COMPLETED, FAILED}
                => jobs[j].attempts >= 1 /\ jobs[j].startedAt # NoTime

\* C11: a non-null dequeue result has status running, startedAt at the claim
\* time and attempts one greater than before the call; attempts starts at 0
\* and grows on every claim, so the k-th claim of a job reports attempts k.
C11_ClaimStep ==
    \A w \in Callers :
        /\ PgDequeueUpdate(w) =>
              LET j == call[w].job IN
              /\ jobs'[j].status = RUNNING
              /\ jobs'[j].startedAt = now
              /\ jobs'[j].attempts = jobs[j].attempts + 1
              /\ claims[j] < CountCap => jobs'[j].attempts = claims'[j]
        /\ \A f \in Filters :
              (held[w] = {} /\ SqsDequeue(w, f) /\ last' = "job") =>
                  \A j \in held'[w] :
                      /\ inFlight'[w][j].startedAt = now
                      /\ claims[j] < CountCap
                            => inFlight'[w][j].attempts = claims'[j]

C11_AttemptsPerClaim == [][C11_ClaimStep]_vars

\* job j is at least as good a choice as job k: higher priority, or the same
\* priority and scheduledFor no later
NoWorseThan(j, k) ==
    \/ jobs[j].priority > jobs[k].priority
    \/ /\ jobs[j].priority = jobs[k].priority
       /\ jobs[j].scheduledFor <= jobs[k].scheduledFor

\* C12 as claimed: relational backend: the job a dequeue call selects has the
\* highest priority, and among those the earliest scheduledFor, of all jobs
\* eligible at the time of the call.
C12_BestOfEligibleStep ==
    \A w \in Callers, f \in Filters :
        (PgDequeueSelect(w, f) /\ call'[w].op = "dequeue")
            => \A k \in Eligible(queueName[w], f) :
                  NoWorseThan(call'[w].job, k)

C12_AsClaimed == [][C12_BestOfEligibleStep]_vars

\* C12 as amended: the same among the eligible jobs whose rows are not locked
\* by another caller's dequeue in progress.
C12_BestOfUnlockedStep ==
    \A w \in Callers, f \in Filters :
        (PgDequeueSelect(w, f) /\ call'[w].op = "dequeue")
            => \A k \in Eligible(queueName[w], f) :
                  rowLock[k] = NoWorker => NoWorseThan(call'[w].job, k)

C12_Ordering == [][C12_BestOfUnlockedStep]_vars

\* The job of priority 5, enqueued second, was claimed while the job of
\* priority 0 enqueued before it was due and is still waiting.
C12_Witness ==
    /\ backend = "relational"
    /\ jobs[1].queue = jobs[2].queue
    /\ jobs[1].priority < jobs[2].priority
    /\ jobs[1].status = PENDING
    /\ claims[1] = 0
    /\ ~hist[1].failed
    /\ jobs[2].status = RUNNING
    /\ jobs[2].startedAt >= jobs[1].scheduledFor

\* the locations the managed backend holds for a job, in messages and leases
SqsLocations(j) ==
    {msgs[m].location : m \in {k \in MsgIds : Queued(k) /\ msgs[k].id = j}}
    \cup {inFlight[c][j].location :
             c \in {d \in Callers : inFlight[d][j].msg # NoMsg}}

\* C13: in both backends a job keeps the location it was enqueued with, and
\* dequeue(B) returns only jobs whose location is B.
C13_OneLocation ==
    \A j \in Ids : Cardinality(SqsLocations(j)) <= 1

C13_FilterStep ==
    /\ \A j \in Ids : Exists(j) => jobs'[j].location = jobs[j].location
    /\ \A w \in Callers, f \in Locations :
          /\ (PgDequeueUpdate(w) /\ call[w].filter = f)
                => jobs'[call[w].job].location = f
          /\ (held[w] = {} /\ SqsDequeue(w, f) /\ last' = "job")
                => \A j \in held'[w] :
                      /\ inFlight'[w][j].location = f
                      /\ SqsLocations(j) \subseteq {f}

C13_LocationFiltering == []C13_OneLocation /\ [][C13_FilterStep]_vars

\* A dequeue with another location returned null while a us-east job of the
\* same queue, due since it was enqueued and never locked, is still waiting.
C13_Witness ==
    /\ backend = "relational"
    /\ \A w \in Callers : queueName[w] = DefaultQueue
    /\ last = "null"
    /\ \E j \in Ids :
          /\ jobs[j].status = PENDING
          /\ jobs[j].location = "us-east"
          /\ claims[j] = 0
          /\ ~hist[j].failed
          /\ rowLock[j] = NoWorker

\* a job id the backend does not recognise: no row with that id in the jobs
\* table; no entry for it in the consumer's in-flight map
PgUnknown(j) == jobs[j].status = ABSENT
SqsUnknown(c, j) == inFlight[c][j].msg = NoMsg

\* fail with an unknown id raises and changes nothing, in both backends; so
\* does the managed acknowledge
UnknownIdRaises(w, j) ==
    /\ \A e \in Errors, r \in BOOLEAN :
          (PgUnknown(j) /\ PgFailRead(w, j, e, r))
              => last' = "threw" /\ jobs' = jobs /\ call'[w].op = "idle"
    /\ \A e \in Errors, r \in BOOLEAN, stale \in BOOLEAN :
          (SqsUnknown(w, j) /\ SqsFailDelete(w, j, e, r, stale))
              => last' = "threw" /\ msgs' = msgs /\ inFlight' = inFlight
    /\ \A stale \in BOOLEAN :
          (SqsUnknown(w, j) /\ SqsAcknowledge(w, j, stale))
              => last' = "threw" /\ msgs' = msgs /\ inFlight' = inFlight

\* C14 as claimed: in both backends acknowledge and fail with a job id the
\* backend does not recognise raise and change no job's state.
C14_AllRaiseStep ==
    \A w \in Callers, j \in Ids :
        /\ UnknownIdRaises(w, j)
        /\ (PgUnknown(j) /\ PgAcknowledge(w, j))
              => last' = "threw" /\ jobs' = jobs

C14_AsClaimed == [][C14_AllRaiseStep]_vars

\* C14 as amended: fail in both backends and acknowledge in the managed
\* backend raise for an unrecognised id and change no job's state; the
\* relational acknowledge of an unknown id returns normally and changes no
\* job's state.
C14_SurfaceStep ==
    \A w \in Callers, j \in Ids :
        /\ UnknownIdRaises(w, j)
        /\ (PgUnknown(j) /\ PgAcknowledge(w, j))
              => last' = "ok" /\ jobs' = jobs

C14_UnknownIds == [][C14_SurfaceStep]_vars

\* The relational backend was asked to acknowledge an id it has no row for,
\* and its last call, a fail with an unknown id, raised.
C14_Witness ==
    /\ backend = "relational"
    /\ last = "threw"
    /\ \E j \in Ids : PgUnknown(j) /\ hist[j].acked

\* caller v is inside a retrying fail of job j, before or between its writes
InRetryingFail(v, j) ==
    /\ call[v].op \in {"fail", "fail_reset"}
    /\ call[v].shouldRetry
    /\ call[v].job = j

\* C15: relational backend, a worker's fail with retry against other workers'
\* dequeue calls: while the fail is before or between its two writes the job
\* is running or retrying, no dequeue has its row selected and only the
\* failing worker holds it; a job that was retried is claimed again only at
\* or after the recomputed scheduledFor, at least 2^attempts seconds after
\* the claim that failed.
C15_NoIntermediateClaim ==
    \A v \in Callers, j \in Ids :
        InRetryingFail(v, j) =>
            /\ rowLock[j] = NoWorker
            /\ Holders(j) = {v}
            /\ jobs[j].status = IF call[v].op = "fail" THEN RUNNING
                                                      ELSE RETRYING
            /\ call[v].op = "fail_reset"
                  => jobs[j].scheduledFor = call[v].nextRunAt

C15_ReclaimStep ==
    \A w \in Callers :
        LET j == call[w].job IN
        /\ \A f \in Filters :
              (PgDequeueSelect(w, f) /\ call'[w].op = "dequeue")
                  => \A v \in Callers : ~InRetryingFail(v, call'[w].job)
        /\ (PgDequeueUpdate(w) /\ hist[j].retries >= 1)
              => /\ now >= jobs[j].scheduledFor
                 /\ now >= jobs[j].startedAt + Pow2(jobs[j].attempts)

C15_TwoPhaseRetry == []C15_NoIntermediateClaim /\ [][C15_ReclaimStep]_vars

\* One worker is between the two writes of its fail while another worker is
\* inside dequeue.
C15_Witness ==
    \E v \in Callers, w \in Callers :
        /\ v # w
        /\ call[v].op = "fail_reset"
        /\ call[w].op = "dequeue"
        /\ jobs[call[v].job].queue = jobs[call[w].job].queue

\* the eligible rows a dequeue of caller w with filter f finds unlocked
Unlocked(w, f) == {j \in Eligible(queueName[w], f) : rowLock[j] = NoWorker}

\* C16: relational backend: dequeue never waits for a row lock, and while
\* other workers' claims are in progress a dequeue that has an eligible row
\* left to it returns one, distinct from the rows being claimed, leaving the
\* other claims untouched; it does not return null.
C16_NeverWaits ==
    backend = "relational" =>
        \A w \in Callers, f \in Filters :
            call[w].op = "idle" => ENABLED PgDequeueSelect(w, f)

C16_SkipStep ==
    \A w \in Callers, f \in Filters :
        (PgDequeueSelect(w, f) /\ Unlocked(w, f) # {})
            => /\ call'[w].op = "dequeue"
               /\ call'[w].job \in Unlocked(w, f)
               /\ \A k \in Ids : k # call'[w].job => rowLock'[k] = rowLock[k]

C16_ClaimSkip == []C16_NeverWaits /\ [][C16_SkipStep]_vars

\* Two workers are inside dequeue at once and the second one took a row that
\* ranks after the row the first one has locked.
C16_Witness ==
    \E v \in Callers, w \in Callers :
        /\ v # w
        /\ call[v].op = "dequeue"
        /\ call[w].op = "dequeue"
        /\ jobs[call[v].job].queue = jobs[call[w].job].queue
        /\ jobs[call[v].job].priority > jobs[call[w].job].priority
        /\ call[w].filter = AnyLocation

\* C17: managed backend: no job is returned by dequeue before its runAt
\* (scheduledFor), also when runAt is more than MaxDelaySeconds ahead.
C17_NotBeforeRunAt ==
    backend = "managed" =>
        \A c \in Callers, j \in Ids :
            inFlight[c][j].msg # NoMsg
                => inFlight[c][j].startedAt >= inFlight[c][j].scheduledFor

\* C18: managed backend: a dequeue(L) that receives a message of another
\* location returns null and leaves the message in the queue with its body
\* (attempts included) as it was, invisible for VisibilityTimeout seconds and
\* receivable after that; no lease is recorded and no job is handed out.
C18_MismatchStep ==
    \A c \in Callers, f \in Locations, m \in MsgIds :
        (/\ backend = "managed"
         /\ msgs'[m] # msgs[m]
         /\ msgs[m].location # f
         /\ SqsDequeue(c, f))
            => /\ last' = "null"
               /\ msgs'[m] = [msgs[m] EXCEPT
                                !.visibleAt = now + VisibilityTimeout,
                                !.receives = @ + 1]
               /\ Queued(m)
               /\ \A k \in MsgIds : k # m => msgs'[k] = msgs[k]
               /\ inFlight' = inFlight
               /\ held' = held
               /\ claims' = claims

C18_LocationMismatch == [][C18_MismatchStep]_vars

\* A message was received twice and leased once: its first receive was by a
\* consumer asking for another location, and it was delivered after the
\* visibility timeout of that receive.
C18_Witness ==
    /\ backend = "managed"
    /\ \E c \in Callers, j \in Ids :
          /\ inFlight[c][j].msg # NoMsg
          /\ inFlight[c][j].receipt = 2
          /\ inFlight[c][j].attempts = 1
          /\ claims[j] = 1
          /\ now >= VisibilityTimeout

\* the delete of fail: the leased message is gone after it
FailDeletes(c, j) == ~(msgs'[inFlight[c][j].msg].state = "queued")

\* the rest of fail on a leased job: the delete sends nothing; without retry
\* the in-flight entry is removed and nothing is sent; with retry exactly one
\* message is sent, with the lease's id, location, priority, maxAttempts,
\* createdAt and attempts and a delay of min(900, 2^attempts) seconds, and
\* then the in-flight entry is removed
FailResends(c) ==
    /\ \A j \in Ids, e \in Errors, r \in BOOLEAN, stale \in BOOLEAN :
          (/\ backend = "managed"
           /\ inFlight[c][j].msg # NoMsg
           /\ SqsFailDelete(c, j, e, r, stale))
          => LET lease == inFlight[c][j] IN
             /\ \A k \in MsgIds :
                   msgs'[k].state = "queued" => msgs'[k] = msgs[k]
             /\ IF r /\ lease.attempts < lease.maxAttempts
                THEN /\ call'[c].op = "fail_send"
                     /\ call'[c].job = j
                     /\ inFlight' = inFlight
                ELSE /\ inFlight'[c][j] = NoLease
                     /\ call'[c].op = "idle"
                     /\ last' = "ok"
    /\ (backend = "managed" /\ SqsFailSend(c))
          => LET j == call[c].job
                 lease == inFlight[c][j]
                 sent == {m \in MsgIds : ~Queued(m) /\ msgs'[m].state = "queued"}
             IN /\ Cardinality(sent) = 1
                /\ \A m \in sent :
                      /\ msgs'[m].id = j
                      /\ msgs'[m].location = lease.location
                      /\ msgs'[m].priority = lease.priority
                      /\ msgs'[m].maxAttempts = lease.maxAttempts
                      /\ msgs'[m].createdAt = lease.createdAt
                      /\ msgs'[m].attempts = lease.attempts
                      /\ msgs'[m].visibleAt
                            = now + Min(MaxDelaySeconds, Pow2(lease.attempts))
                /\ \A k \in MsgIds \ sent : msgs'[k] = msgs[k]
                /\ inFlight'[c][j] = NoLease
                /\ call'[c].op = "idle"

\* C19 as claimed: managed backend: fail on a job in the in-flight map always
\* deletes the leased message, removes the in-flight entry, and re-sends as
\* described exactly when retry is true and attempts < maxAttempts.
C19_AlwaysDeletesStep ==
    \A c \in Callers :
        /\ FailResends(c)
        /\ \A j \in Ids, e \in Errors, r \in BOOLEAN, stale \in BOOLEAN :
              (/\ backend = "managed"
               /\ inFlight[c][j].msg # NoMsg
               /\ SqsFailDelete(c, j, e, r, stale))
              => FailDeletes(c, j)

C19_DeletesCurrentStep ==
    \A c \in Callers :
        /\ FailResends(c)
        /\ \A j \in Ids, e \in Errors, r \in BOOLEAN, stale \in BOOLEAN :
              (/\ backend = "managed"
               /\ inFlight[c][j].msg # NoMsg
               /\ msgs[inFlight[c][j].msg].receives = inFlight[c][j].receipt
               /\ SqsFailDelete(c, j, e, r, stale))
              => FailDeletes(c, j)

Foreign(w, j) == Exists(j) /\ jobs[j].queue # queueName[w]

\* C20: relational backend, queues sharing the jobs table: no step of an
\* operation issued through a handle (dequeue, acknowledge, fail) locks,
\* changes or hands out a job enqueued under another queue name.
C20_IsolationStep ==
    \A w \in Callers, j \in Ids :
        (/\ backend = "relational"
         /\ Foreign(w, j)
         /\ \/ \E f \in Filters : PgDequeueSelect(w, f)
            \/ PgDequeueUpdate(w)
            \/ PgAcknowledge(w, j)
            \/ \E e \in Errors, r \in BOOLEAN : PgFailRead(w, j, e, r)
            \/ PgFailWrite(w)
            \/ PgFailReset(w))
            => /\ jobs'[j] = jobs[j]
               /\ rowLock'[j] = rowLock[j]
               /\ j \notin held'[w]

C20_QueueIsolation == [][C20_IsolationStep]_vars

\* C21: worker, for each claimed job: the executor is called only after the
\* run record was updated to running; acknowledge is called only after the
\* run record was updated to completed (result.success) or failed (not
\* result.success, with the errors), these being the calls issued so far, in
\* this order; and when acknowledge returns, fail was not called.
C21_OrderStep ==
    \A l \in LoopIds :
        LET lp == loops[l]
            reported == IF lp.success THEN "runs.completed" ELSE "runs.failed"
        IN
        /\ (lp.pc # "execute" /\ loops'[l].pc = "execute")
              => /\ lp.pc = "runs_running"
                 /\ runRecord'[lp.job].status = RUNNING
                 /\ loops'[l].trail = <<"runs.running", "execute">>
        /\ (lp.pc # "acknowledge" /\ loops'[l].pc = "acknowledge")
              => /\ lp.pc = "runs_result"
                 /\ loops'[l].trail
                       = <<"runs.running", "execute", reported, "acknowledge">>
                 /\ runRecord'[lp.job] =
                       [status |-> IF lp.success THEN COMPLETED ELSE FAILED,
                        error |-> IF lp.success THEN NoError ELSE "boom"]
        /\ (lp.pc = "acknowledge" /\ loops'[l].pc \in {"poll", "done"})
              => lp.trail
                    = <<"runs.running", "execute", reported, "acknowledge">>

C21_ProcessingOrder == [][C21_OrderStep]_vars

\* A job whose plan failed is about to be acknowledged, its run record failed.
C21_Witness ==
    \E l \in LoopIds :
        /\ loops[l].pc = "acknowledge"
        /\ ~loops[l].success
        /\ runRecord[loops[l].job].status = FAILED

\* the calls named e among the calls processJob issued
Issued(trail, e) == Cardinality({i \in DOMAIN trail : trail[i] = e})

\* a step of processJob's try block throws in loop l
ProcessingThrows(l) ==
    \/ \E h \in BOOLEAN : ProcessRunning(l, "throws", h)
    \/ ProcessRunning(l, "ok", FALSE)
    \/ ProcessExecute(l) /\ loops'[l].pc # "runs_result"
    \/ ProcessResult(l, "throws")
    \/ ProcessAcknowledge(l, "throws")

\* C22: worker: when a step of processing a claimed job throws, the worker
\* issues one run-record update to failed with the error message, and after
\* it returned or threw calls fail(jobId, error, true), once; the loop goes on
\* after fail (to the next poll, or to the 1000 ms sleep when fail threw) and
\* ends only when the worker was stopped.
C22_ExceptionStep ==
    \A l \in LoopIds :
        LET lp == loops[l] IN
        /\ ProcessingThrows(l)
              => /\ loops'[l].pc = "runs_error"
                 /\ loops'[l].error \in Errors
                 /\ loops'[l].trail = Append(lp.trail, "runs.error")
                 /\ Issued(loops'[l].trail, "runs.error") = 1
                 /\ Issued(loops'[l].trail, "fail") = 0
        /\ (lp.pc = "runs_error" /\ loops'[l] # lp)
              => /\ loops'[l].pc = "fail"
                 /\ loops'[l].trail = Append(lp.trail, "fail")
                 /\ \/ runRecord' = runRecord
                    \/ runRecord' = [runRecord EXCEPT ![lp.job] =
                          [status |-> FAILED, error |-> lp.error]]
        /\ (lp.pc = "fail" /\ loops'[l] # lp)
              => /\ Issued(lp.trail, "fail") = 1
                 /\ Issued(lp.trail, "runs.error") = 1
                 /\ loops'[l].pc \in {"poll", "sleep_error", "done"}
                 /\ loops'[l].pc = "done" => ~isRunning

C22_ExceptionPath == [][C22_ExceptionStep]_vars

\* fail has been called although the update to failed threw: the run record
\* still says running.
C22_Witness ==
    \E l \in LoopIds :
        /\ loops[l].pc = "fail"
        /\ runRecord[loops[l].job].status = RUNNING
        /\ \A k \in LoopIds : k # l => loops[k].pc = "unborn"

\* C23: worker: a job whose plan failed (the executor returned success =
\* false) or whose execution threw is resolved by fail(id, error, true): it
\* is never acknowledged, and the calls processJob has issued when it
\* returns end with fail.
C23_FailureStep ==
    \A l \in LoopIds :
        LET lp == loops[l] IN
        /\ (lp.pc # "acknowledge" /\ loops'[l].pc = "acknowledge") => lp.success
        /\ (/\ lp.pc \in {"acknowledge", "fail"}
            /\ loops'[l].pc \in {"poll", "done"}
            /\ ~lp.success)
              => lp.trail[Len(lp.trail)] = "fail"

C23_FailuresRetried == [][C23_FailureStep]_vars

StopCalled == \E s \in StopIds : stops[s].state # "idle"

\* C24: worker: a runWorkerLoop call ends only after stop() was called; when
\* poll, acknowledge or fail throws, the loop sleeps 1000 ms and then goes to
\* its next iteration; start() throws nothing but its own refusal to start a
\* running worker.
C24_SurviveStep ==
    /\ \A l \in LoopIds :
          LET lp == loops[l] IN
          /\ (lp.pc # "done" /\ loops'[l].pc = "done") => StopCalled
          /\ (\/ LoopPoll(l) /\ loops'[l].pc \notin {"sleep_empty", "runs_running"}
              \/ ProcessAcknowledge(l, "throws")
              \/ ProcessFail(l, "throws"))
                => /\ loops'[l].pc = "sleep_error"
                   /\ loops'[l].sleep = ErrorDelay
          /\ (lp.pc = "sleep_error" /\ loops'[l] # lp)
                => loops'[l].pc = IF isRunning THEN "poll" ELSE "done"
    /\ (WorkerStart /\ lastStart' = "threw") => isRunning

C24_SurvivesErrors == [][C24_SurviveStep]_vars

\* loop l polls and finds the queue empty
EmptyPoll(l) == LoopPoll(l) /\ loops'[l].pc = "sleep_empty"

\* C25 as claimed: worker: the k-th of consecutive empty polls sleeps
\* min(emptyDelay * 2^(k-1), maxEmptyDelay), and the first empty poll after a
\* poll that returned a job sleeps emptyDelay.
C25_RunStep ==
    \A l \in LoopIds :
        (EmptyPoll(l) /\ emptyRun < MaxStreak)
            => /\ loops'[l].sleep =
                     Min(workerConfig.emptyDelay * Pow2(emptyRun' - 1),
                         workerConfig.maxEmptyDelay)
               /\ emptyRun' = 1 => loops'[l].sleep = workerConfig.emptyDelay

C25_DelayStep ==
    \A l \in LoopIds :
        (EmptyPoll(l) /\ sleepsEnded < MaxStreak)
            => loops'[l].sleep =
                  IF sleepsEnded = 0 THEN workerConfig.emptyDelay
                  ELSE Min(workerConfig.emptyDelay * Pow2(sleepsEnded),
                           workerConfig.maxEmptyDelay)

C26_GracefulStop ==
    \A s \in StopIds :
        stops[s].state = "returned"
            => \A l \in stops[s].saw : loops[l].pc = "done"

\* the configuration misses what its backend kind needs, or names no kind
Misconfigured ==
    \/ hubConfig.backend = "postgres" /\ hubConfig.connectionString = "undefined"
    \/ hubConfig.backend = "sqs"
          /\ (~hubConfig.hasQueueInfo \/ Len(hubConfig.queueInfo) = 0)
    \/ hubConfig.backend \notin {"postgres", "sqs"}

\* C27: createJobQueueBackend throws on a postgres configuration without
\* connection string, on an sqs configuration whose queueInfo is missing or
\* empty and on an unknown backend kind: no backend is built from such a
\* configuration, so none is connected or asked for a queue.
C27_FailFast ==
    (Misconfigured /\ built # "none")
        => /\ built = "threw"
           /\ phase = "none"
           /\ lastQueue = "none"
           /\ lastOp = "none"

\* C28: backend lifecycle: a backend that was built holds no open pool
\* before connect(); an operation on a queue handle succeeds only after
\* connect() and before the disconnect() that follows it; and the relational
\* backend's queue(name) before connect() throws and gives no handle.
C28_LifecycleStep ==
    /\ phase \in {"none", "constructed"} => pool = NoPool /\ openPools = {}
    /\ HandleOp("ok") => phase = "connected"
    /\ \A name \in QueueNames :
          (built = "postgres" /\ phase = "constructed" /\ BackendQueue(name))
              => lastQueue' = "threw" /\ handle' = handle

C28_Lifecycle == [][C28_LifecycleStep]_vars

\* the number of jobs of a sequence that are of the plan and tagged with the
\* location
JobCount(q, p, loc) ==
    Cardinality({i \in DOMAIN q : q[i].planId = p /\ q[i].location = loc})

\* the plan is due at time at: it never ran, or its interval has passed since
\* it was scheduled last
IsDue(p, at) ==
    \/ planStore[p].lastScheduled = NoTime
    \/ at >= planStore[p].lastScheduled
                + planStore[p].frequency.every
                  * UnitMs(planStore[p].frequency.unit)

\* C29: scheduler tick: a tick enqueues exactly one job, tagged with the
\* location, for every plan that is due and every location configured for
\* it, and no job for a plan that is not due or a location not configured.
C29_TickStep ==
    SchedulerTick =>
        \A p \in PlanIds, loc \in Locations :
            JobCount(outbox', p, loc) =
                IF IsDue(p, clock) /\ loc \in planStore[p].locations
                THEN 1 ELSE 0

C29_TickEnqueues == [][C29_TickStep]_vars

\* a tick has enqueued jobs of a plan for two locations while the other plan
\* was not due
C29_Witness ==
    /\ \E p \in PlanIds :
          /\ \A loc \in Locations : JobCount(outbox, p, loc) = 1
          /\ \E o \in PlanIds \ {p} :
                /\ o \notin lastDue
                /\ planStore[o].locations # {}
    /\ lastDue # {}

\* C30: scheduler due-detection: a tick treats a plan with no prior run as
\* due; a plan this scheduler triggered last at time t, with interval I, is
\* treated as due by a tick exactly when the tick is at or after t + I.
C30_DueStep ==
    SchedulerTick =>
        \A p \in PlanIds :
            /\ planStore[p].lastScheduled = NoTime => p \in lastDue'
            /\ triggered[p] # NoTime =>
                  (p \in lastDue' <=>
                      clock >= triggered[p]
                                 + planStore[p].frequency.every
                                   * UnitMs(planStore[p].frequency.unit))

C30_DueDetection == [][C30_DueStep]_vars

\* a plan this scheduler triggered was passed over by the tick after it, and
\* the timer fires again exactly one interval after the plan was triggered
C30_Witness ==
    \E p \in PlanIds :
        /\ triggered[p] # NoTime
        /\ p \notin lastDue
        /\ schedRunning
        /\ nextTick = clock
        /\ clock = triggered[p]
                     + planStore[p].frequency.every
                       * UnitMs(planStore[p].frequency.unit)

\* C31: scheduler start/stop: start() on a running scheduler and stop() on
\* a stopped one change nothing and do not raise; there is never more than
\* one tick timer; when stop() returns no tick is in flight; and no tick
\* begins while the scheduler is stopped.
C31_StartStopStep ==
    /\ (SchedulerStart /\ schedRunning) =>
          /\ UNCHANGED <<schedRunning, nextTick, timers, tickInFlight>>
          /\ schedLast' = "running already"
    /\ (SchedulerStop /\ ~schedRunning) =>
          /\ UNCHANGED <<schedRunning, nextTick, timers, tickInFlight>>
          /\ schedLast' = "stopped already"
    /\ timers' <= 1
    /\ (schedLast # "stopped" /\ schedLast' = "stopped") => ~tickInFlight'
    /\ (~tickInFlight /\ tickInFlight') =>
          schedLast \notin {"none", "stopping", "stopped", "stopped already"}

C31_StartStop == [][C31_StartStopStep]_vars

\* stop() has returned after waiting for a tick that had enqueued jobs
C31_Witness ==
    /\ schedLast = "stopped"
    /\ stopWaited
    /\ ~tickInFlight
    /\ outbox # <<>>
    /\ timers = 0

\* C32: plan executor result: when executePlanV1 has returned, a plan
\* without start or end node gave success false with the error 'Could not
\* determine start or end node from plan' and no node was executed; any
\* other plan gave success exactly when no entry of results records an
\* error, the run went on past failing nodes to the node without edge,
\* results holds the executed nodes' entries one by one in the order of
\* execution, and no failed entry has a response.
C32_ExecutorResult ==
    execResult.returned =>
        IF StartNode = NoNode \/ EndNode = NoNode
        THEN /\ ~execResult.success
             /\ execResult.errors = <<CouldNotDetermine>>
             /\ executed = <<>>
        ELSE /\ execResult.success <=>
                    \A i \in DOMAIN execResult.results :
                        execResult.results[i].error = "undefined"
             /\ executed # <<>>
             /\ plan.next[executed[Len(executed)]] = NoNode
             /\ Len(execResult.results) = Len(executed)
             /\ \A i \in DOMAIN execResult.results :
                   /\ execResult.results[i].nodeId = executed[i]
                   /\ ~execResult.results[i].success =>
                         ~execResult.results[i].response

\* a worker's process died while it held the job, outside any call
Orphan(j) == \E w \in Callers : crashedIn[w] = "idle" /\ j \in held[w]

\* a dequeue of the job's location now would be given the job
Claimable(j) ==
    IF backend = "relational"
    THEN jobs[j].status = PENDING /\ jobs[j].scheduledFor <= now
    ELSE \E m \in Visible : msgs[m].id = j

\* C33: crashed-worker recovery: in both backends a job whose worker died
\* after dequeue returned it and before acknowledge or fail becomes
\* claimable again.
C33_Recovery == \A j \in Ids : Orphan(j) ~> Claimable(j)

\* the job is in the queue with the location
EnqueuedFor(j, loc) ==
    IF backend = "relational"
    THEN Exists(j) /\ jobs[j].location = loc
    ELSE \E m \in MsgIds : Queued(m) /\ msgs[m].id = j /\ msgs[m].location = loc

\* C34: eventual delivery: in both backends a job enqueued with the location
\* of a worker that keeps polling is returned by a dequeue, also while a
\* worker of another location polls the same queue.
C34_Delivery ==
    \A j \in Ids : EnqueuedFor(j, Binding(1)) ~> (claims[j] > 0)

\* C35: no job is stranded in retrying: in the relational backend, whenever
\* no fail call is in progress no job has status retrying.
C35_NoneRetrying ==
    (\A w \in Callers : call[w].op \notin {"fail", "fail_reset"})
        => \A j \in Ids : jobs[j].status # RETRYING

\* a message of the job is in the queue after the step
Remains(j) == \E m \in MsgIds : msgs'[m].state = "queued" /\ msgs'[m].id = j

\* C36: no job loss on managed-backend retry: when a fail call that retries
\* ends, by returning or by the throw of its delete or of its re-send, a
\* message of the job is in the queue.
C36_RetryStep ==
    \A c \in Callers :
        /\ (SqsFailSend(c) \/ SqsFailSendThrows(c)) => Remains(call[c].job)
        /\ \A j \in held[c] :
              (/\ SqsFailDeleteThrows(c, j)
               /\ Queued(inFlight[c][j].msg)
               /\ msgs[inFlight[c][j].msg].id = j) => Remains(j)

C36_NoLossOnRetry == [][C36_RetryStep]_vars

\* C37: worker: once the executor has returned and the run record's update
\* to completed or failed has been written, the worker goes on to
\* acknowledge and from there neither updates the run record to failed with
\* an error nor calls fail(jobId, error, true), also when acknowledge throws.
C37_KeptStep ==
    \A l \in LoopIds :
        (loops[l].pc = "acknowledge" /\ loops'[l] # loops[l])
            => /\ loops'[l].pc \notin {"runs_error", "fail"}
               /\ Issued(loops'[l].trail, "runs.error") = 0
               /\ Issued(loops'[l].trail, "fail") = 0

C37_SuccessKept == [][C37_KeptStep]_vars

\* C38: worker: at most one runWorkerLoop call is active at a time, whatever
\* start() and stop() calls are made, and start() on a running worker throws
\* and starts no loop.
C38_LoopStep ==
    /\ Cardinality(InFlightLoops') <= 1
    /\ (WorkerStart /\ isRunning) => lastStart' = "threw" /\ loops' = loops

C38_SingleLoop == [][C38_LoopStep]_vars

\* C39: worker: for every configuration, every sleep taken after an empty
\* poll is at least emptyDelay and at most maxEmptyDelay.
C39_RangeStep ==
    \A l \in LoopIds :
        EmptyPoll(l)
            => /\ loops'[l].sleep >= workerConfig.emptyDelay
               /\ loops'[l].sleep <= workerConfig.maxEmptyDelay

C39_DelayInRange == [][C39_RangeStep]_vars

\* C40: relational backend: queue(name) gives no handle over a pool that was
\* ended; after disconnect() it throws; and the handle it gives is over the
\* pool that connect() opened last.
C40_HandleStep ==
    \A name \in QueueNames :
        (built = "postgres" /\ BackendQueue(name))
            => /\ lastQueue' = "handle" =>
                     /\ handle'.pool \in openPools
                     /\ handle'.pool = pool
               /\ phase = "disconnected" => lastQueue' = "threw"

C40_HandlesFollow == [][C40_HandleStep]_vars

====
